---- MODULE Spec2Model ----
(***************************************************************************)
(* Lineage / versioning engine of galileo: DataSources, Snapshots,         *)
(* Preprocesses and ExecutedPreprocess records in the metadata store, the  *)
(* snapshot files of the Tabular Store, and the request handlers that      *)
(* change them.  What a handler commits is computed by an operator that    *)
(* follows the handler's code line by line, including which flushed rows   *)
(* an early db.commit() makes durable and which a raised exception rolls   *)
(* back (get_db closes the session).  A handler with one commit and no      *)
(* await is one action.  A handler that other requests can run into is one *)
(* action per part: execute_preprocess before and after its first commit,  *)
(* the ingest and upload_snapshot before and after their await,            *)
(* run_training before and after its training; inflight holds the handlers *)
(* between their parts.  A session answers db.get and the relationships    *)
(* from the rows it has loaded since its last commit: auto.cache holds     *)
(* those of the automation job, whose session lives through its calls.     *)
(*                                                                         *)
(* Ids are uuid4 strings in the code; here a record's id is its position   *)
(* in its table (always fresh).  0 stands for None / "" (both falsy).      *)
(* A CSV file is [cols, rows, nl]: header, one cell per row (every table   *)
(* of the model has one column) and whether the last byte is a newline.    *)
(***************************************************************************)
EXTENDS Integers, Sequences, FiniteSets, TLC

VARIABLES datasources, snapshots, files, preprocesses, executed, now, born, consumed, calls,
          trainings, training_executions, auto, tasks, sandbox, inflight

vars == <<datasources, snapshots, files, preprocesses, executed, now, born, consumed, calls,
          trainings, training_executions, auto, tasks, sandbox, inflight>>

\* ---- bounds of the model ------------------------------------------------
MaxDs == 3
MaxSnaps == 5
MaxPp == 2
MaxExec == 2
MaxRows == 2
MaxSec == 1
MaxFiles == 6
MaxCalls == 4
MaxTrain == 1
MaxTrainExec == 1
MaxRuns == 1
MaxWork == 6
MaxSize == 3
MaxInflight == 1

\* ---- values ---------------------------------------------------------------
None == 0

\* a file of zero bytes: no header, no rows
EmptyUpload == [cols |-> <<>>, rows |-> <<>>, nl |-> FALSE]

\* the CSV upload offered to ingest, and the uploads offered to upload_snapshot
IngestBytes == { [cols |-> <<"a">>, rows |-> <<1>>, nl |-> FALSE] }

UploadBytes == IngestBytes \cup { [cols |-> <<"b">>, rows |-> <<1>>, nl |-> FALSE] }

\* file.filename of an upload
FileNames == {"data.csv"}

\* rows offered to append_rows: a row is a dict {column: value}
RowA == [keys |-> {"a"}, val |-> 1]
RowB == [keys |-> {"b"}, val |-> 1]
AppendRequests == { <<RowA>>, <<RowB>>, <<RowA, RowB>> }

\* the value of an optional legacy join parameter offered to create_preprocess
LegacyChoices == {None, 1}

Put(f, k, v) == [x \in (DOMAIN f) \cup {k} |-> IF x = k THEN v ELSE f[x]]

\* ---- failures of the environment ----------------------------------------------
\* The failure injected into a call that writes a file and commits: "none";
\* "open" (the file cannot be created: no file); a fault of WriteFaults (the
\* file is created, then the write or the closing flush raises OSError with
\* the first n bytes on the disk, "write0", "write1", ...); "commit" (the file
\* is written and closed, the final db.commit() raises).  Neither open() ...
\* as out nor DataFrame.to_csv removes the file it created when the write
\* fails.  The files of the model have one column and cells of one character:
\* a header or a row is one byte, and one more with its newline, so that no
\* file is longer than 2 * (MaxRows + 1) bytes.
WriteFaults == { "write" \o ToString(n) : n \in 0..(2 * (MaxRows + 1)) }

Faults == {"none", "open", "commit"} \cup WriteFaults

\* the file a failed write leaves at its path: the first n bytes of bytes, that
\* is its first (n + 1) \div 2 lines, the last of them with its newline when
\* n is even; all of bytes when it has no more than n
Left(bytes, fault) ==
    LET n == CHOOSE m \in 0..(2 * (MaxRows + 1)) : fault = "write" \o ToString(m)
        size == 2 * (1 + Len(bytes.rows)) - (IF bytes.nl THEN 0 ELSE 1)
    IN IF n = 0 \/ bytes.cols = <<>> THEN EmptyUpload
       ELSE IF n >= size THEN bytes
       ELSE [cols |-> bytes.cols,
             rows |-> SubSeq(bytes.rows, 1, ((n + 1) \div 2) - 1),
             nl |-> n % 2 = 0]

Range(s) == { s[i] : i \in DOMAIN s }

\* ---- pandas / csv ---------------------------------------------------------
read_csv(bytes) == [cols |-> bytes.cols, rows |-> bytes.rows]

to_csv(df) == [cols |-> df.cols, rows |-> df.rows, nl |-> TRUE]

\* pd.api.types.infer_dtype(series, skipna=True)
infer_dtype(rows) == IF rows = <<>> THEN "empty" ELSE "integer"

\* dtype decided by ingest / upload: the regex checks use Series.all(), which is
\* True of an empty column, so an empty column is taken for 'datetime64'
upload_dtype(rows) == IF rows = <<>> THEN "datetime64" ELSE infer_dtype(rows)

ingest_schema(df) ==
    [i \in 1..Len(df.cols) |->
        [name |-> df.cols[i], dtype |-> upload_dtype(df.rows), null_count |-> 0]]

exec_schema(df) ==
    [i \in 1..Len(df.cols) |->
        [name |-> df.cols[i], dtype |-> infer_dtype(df.rows), null_count |-> 0]]

\* [(c["name"], c["dtype"]) for c in columns]
name_dtype(columns) == [i \in 1..Len(columns) |-> <<columns[i].name, columns[i].dtype>>]

\* ---- paths ----------------------------------------------------------------
\* A time t read from datetime.utcnow() is [sec, us]: t.sec is the time cut to
\* whole seconds, t.us the full time in microseconds.  Two reads may fall in the
\* same second; the microsecond readings of two calls are taken to differ, and
\* as only their difference within one directory matters to a path, t.us[d] is
\* the reading counted among the files of directory d.
\* strftime("%Y%m%dT%H%M%S%f") + "_" + filename under SNAPSHOT_BASE/<ds id>
UploadPath(ds_id, t, filename) == <<ds_id, t.us[ds_id], filename>>

\* strftime("%Y%m%dT%H%M%SZ") + "_input.csv": whole seconds only
CopyPath(ds_id, t) == <<ds_id, t.sec, "Z_input.csv">>

\* strftime("%Y%m%dT%H%M%S%f") + "_exec.csv"
ExecPath(ds_id, t) == <<ds_id, t.us[ds_id], "exec.csv">>

\* ---- results of a handler -------------------------------------------------
\* what a handler leaves committed, and its HTTP answer
\* (trace: what the handler resolved on the way, kept for the record of the call)
ResultT(status, detail, ret, dss, snaps, fs, pps, exes, trace) ==
    [status |-> status, detail |-> detail, ret |-> ret,
     datasources |-> dss, snapshots |-> snaps, files |-> fs,
     preprocesses |-> pps, executed |-> exes, trace |-> trace]

Result(status, detail, ret, dss, snaps, fs, pps, exes) ==
    ResultT(status, detail, ret, dss, snaps, fs, pps, exes, <<>>)

\* HTTPException raised before anything was written or committed
Raise(status, detail) ==
    Result(status, detail, None, datasources, snapshots, files, preprocesses, executed)

IsDs(id) == id \in 1..Len(datasources)
IsSnap(id) == id \in 1..Len(snapshots)
IsPp(id) == id \in 1..Len(preprocesses)

\* ---- DatasourceService.create_datasource_with_snapshot --------------------
\* fault: the failure the environment injects into the call (Faults).
\* Nothing is committed before step 5, so every failure rolls the DataSource
\* and the Snapshot back; a file already created stays, with the bytes that
\* reached it.

\* the ingest with a commit of the DataSource row in step 1, before the file
\* is read and written
create_datasource_with_snapshot_commit_first(content, filename, t, fault) ==
    LET ds_id == Len(datasources) + 1
        full_path == UploadPath(ds_id, t, filename)
        early == Append(datasources, [schema_json |-> <<>>, active_snapshot_id |-> None])
    IN IF content.cols = <<>>
       THEN Result(500, "EmptyDataError", None, early, snapshots, files,
                   preprocesses, executed)
       ELSE IF fault = "open"
       THEN Result(500, "OSError", None, early, snapshots, files, preprocesses, executed)
       ELSE IF fault \in WriteFaults
       THEN Result(500, "OSError", None, early, snapshots,
                   Put(files, full_path, Left(content, fault)), preprocesses, executed)
       ELSE IF fault = "commit"
       THEN Result(500, "commit failed", None, early, snapshots,
                   Put(files, full_path, content), preprocesses, executed)
       ELSE Result(200, "ok", ds_id,
                   Append(datasources, [schema_json |-> <<ingest_schema(read_csv(content))>>,
                                        active_snapshot_id |-> Len(snapshots) + 1]),
                   Append(snapshots, [datasource_id |-> ds_id, path |-> full_path]),
                   Put(files, full_path, content),
                   preprocesses, executed)

create_datasource_with_snapshot(content, filename, t, fault) ==
    LET ds_id == Len(datasources) + 1
        snap_id == Len(snapshots) + 1
        df == read_csv(content)
        full_path == UploadPath(ds_id, t, filename)
        ds == [schema_json |-> <<ingest_schema(df)>>, active_snapshot_id |-> snap_id]
    IN \* 2) pd.read_csv raises EmptyDataError for a file without a header
       IF content.cols = <<>> THEN Raise(500, "EmptyDataError")
       \* 3) open(full_path, "wb") raises
       ELSE IF fault = "open" THEN Raise(500, "OSError")
       \* 3) out.write(content), or the flush that closes the file, raises
       ELSE IF fault \in WriteFaults
       THEN Result(500, "OSError", None, datasources, snapshots,
                   Put(files, full_path, Left(content, fault)), preprocesses, executed)
       \* 5) the file is written, the commit raises
       ELSE IF fault = "commit"
       THEN Result(500, "commit failed", None, datasources, snapshots,
                   Put(files, full_path, content), preprocesses, executed)
       ELSE Result(200, "ok", ds_id,
                   Append(datasources, ds),
                   Append(snapshots, [datasource_id |-> ds_id, path |-> full_path]),
                   Put(files, full_path, content),
                   preprocesses, executed)

\* upload_snapshot with steps 4 and 5 exchanged: the file is written before the
\* schema is validated
upload_snapshot_write_first(datasource_id, content, filename, t, fault) ==
    IF ~IsDs(datasource_id) THEN Raise(404, "Datasource not found")
    ELSE IF content.cols = <<>> THEN Raise(500, "EmptyDataError")
    ELSE IF (IF datasources[datasource_id].schema_json = <<>> THEN <<>>
             ELSE name_dtype(datasources[datasource_id].schema_json[1]))
            # name_dtype(ingest_schema(read_csv(content)))
    THEN Result(400, "Schema mismatch", None, datasources, snapshots,
                Put(files, UploadPath(datasource_id, t, filename), content),
                preprocesses, executed)
    ELSE Result(200, "ok", Len(snapshots) + 1,
                datasources,
                Append(snapshots, [datasource_id |-> datasource_id,
                                   path |-> UploadPath(datasource_id, t, filename)]),
                Put(files, UploadPath(datasource_id, t, filename), content),
                preprocesses, executed)

\* ---- DatasourceService.upload_snapshot ------------------------------------
\* The handler is a coroutine: it reads the DataSource and its stored schema
\* (upload_stored_cols), awaits the bytes of the upload, and goes on with what
\* it read before (upload_write).  Other requests can be served at the await.

\* lines 97-104: the (name, dtype) pairs of the stored schema
upload_stored_cols(datasource_id) ==
    LET ds == datasources[datasource_id]
        stored == IF ds.schema_json = <<>> THEN <<>> ELSE ds.schema_json[1]
    IN name_dtype(stored)

\* lines 109-151, for the stored_cols the handler read before the await
upload_write(datasource_id, stored_cols, content, filename, t, fault) ==
    \* 3) pd.read_csv raises EmptyDataError for a file without a header
    IF content.cols = <<>> THEN Raise(500, "EmptyDataError")
    ELSE
    LET inferred_cols == name_dtype(ingest_schema(read_csv(content)))
        full_path == UploadPath(datasource_id, t, filename)
    IN IF stored_cols # inferred_cols THEN Raise(400, "Schema mismatch")
       \* 5) open(full_path, "wb") raises
       ELSE IF fault = "open" THEN Raise(500, "OSError")
       \* 5) out.write(content), or the flush that closes the file, raises
       ELSE IF fault \in WriteFaults
       THEN Result(500, "OSError", None, datasources, snapshots,
                   Put(files, full_path, Left(content, fault)), preprocesses, executed)
       \* 6) the file is written, the commit raises
       ELSE IF fault = "commit"
       THEN Result(500, "commit failed", None, datasources, snapshots,
                   Put(files, full_path, content), preprocesses, executed)
       ELSE Result(200, "ok", Len(snapshots) + 1,
                   datasources,
                   Append(snapshots, [datasource_id |-> datasource_id, path |-> full_path]),
                   Put(files, full_path, content),
                   preprocesses, executed)

\* the handler when no other request is served at its await
upload_snapshot(datasource_id, content, filename, t, fault) ==
    IF ~IsDs(datasource_id) THEN Raise(404, "Datasource not found")
    ELSE upload_write(datasource_id, upload_stored_cols(datasource_id),
                      content, filename, t, fault)

\* ---- routers/datasource.set_active_snapshot -------------------------------
\* set_active_snapshot without the check of the snapshot
set_active_snapshot_unchecked(ds_id, snapshot_id) ==
    IF ~IsDs(ds_id) THEN Raise(404, "Datasource not found")
    ELSE Result(200, "ok", ds_id,
                [datasources EXCEPT ![ds_id].active_snapshot_id = snapshot_id],
                snapshots, files, preprocesses, executed)

set_active_snapshot(ds_id, snapshot_id) ==
    IF ~IsDs(ds_id) THEN Raise(404, "Datasource not found")
    ELSE IF ~IsSnap(snapshot_id) \/ snapshots[snapshot_id].datasource_id # ds_id
    THEN Raise(400, "Invalid snapshot for this datasource")
    ELSE Result(200, "ok", ds_id,
                [datasources EXCEPT ![ds_id].active_snapshot_id = snapshot_id],
                snapshots, files, preprocesses, executed)

\* ---- DatasourceService.append_rows ----------------------------------------
\* the rows csv.DictWriter has written when the loop ends or raises: the
\* longest prefix of the request whose keys all match the columns
RECURSIVE written_rows(_, _)
written_rows(rows, columns) ==
    IF rows = <<>> \/ Head(rows).keys # Range(columns) THEN <<>>
    ELSE <<Head(rows).val>> \o written_rows(Tail(rows), columns)

append_rows(ds_id, rows) ==
    IF ~IsDs(ds_id) THEN Raise(404, "Datasource not found")
    ELSE IF \E i \in 1..Len(preprocesses) : preprocesses[i].datasource_child_id = ds_id
    THEN Raise(400, "Can only append to a root datasource")
    ELSE IF datasources[ds_id].active_snapshot_id = None
    THEN Raise(400, "No active snapshot set for this datasource")
    ELSE IF datasources[ds_id].schema_json = <<>>
    THEN Raise(500, "Datasource has no schema on record")
    ELSE
    LET csv_path == snapshots[datasources[ds_id].active_snapshot_id].path
        columns == [i \in 1..Len(datasources[ds_id].schema_json[1]) |->
                        datasources[ds_id].schema_json[1][i].name]
        old == files[csv_path]
        wrote == written_rows(rows, columns)
        \* step 6 ends the file with a newline before any row is checked
        new == [cols |-> old.cols, rows |-> old.rows \o wrote, nl |-> TRUE]
    IN IF Len(wrote) < Len(rows)
       THEN Result(400, "Row keys must exactly match columns", None,
                   datasources, snapshots, Put(files, csv_path, new), preprocesses, executed)
       ELSE Result(200, "ok", Len(rows),
                   datasources, snapshots, Put(files, csv_path, new), preprocesses, executed)

\* ---- routers/preprocess.create_preprocess ---------------------------------
\* the step lists offered as body.config["steps"]
RenameStep == [op |-> "rename_column", left_snapshot_id |-> None, right_snapshot_id |-> None]
JoinStep(l, r) == [op |-> "join", left_snapshot_id |-> l, right_snapshot_id |-> r]

Configs ==
    { <<RenameStep>> } \cup { <<JoinStep(l, l)>> : l \in LegacyChoices }

\* create_preprocess without step 1: the newest DataSource on record is taken as
\* the child in place of a new one
create_preprocess_existing_child(parent_ids, parents, steps) ==
    IF Len(parent_ids) \notin {1, 2}
    THEN Raise(400, "Preprocess must have 1 or 2 parent datasources")
    ELSE IF Len(parents) # Len(parent_ids)
    THEN Raise(404, "One or more parent datasources not found")
    ELSE Result(200, "ok", Len(preprocesses) + 1,
                datasources, snapshots, files,
                Append(preprocesses, [datasource_child_id |-> Len(datasources),
                                      datasource_parents |-> parents,
                                      config |-> steps]),
                executed)

\* create_preprocess without step 1: the first parent is taken as the child
create_preprocess_child_is_parent(parent_ids, parents, steps) ==
    IF Len(parent_ids) \notin {1, 2}
    THEN Raise(400, "Preprocess must have 1 or 2 parent datasources")
    ELSE IF Len(parents) # Len(parent_ids)
    THEN Raise(404, "One or more parent datasources not found")
    ELSE Result(200, "ok", Len(preprocesses) + 1,
                datasources, snapshots, files,
                Append(preprocesses, [datasource_child_id |-> parents[1],
                                      datasource_parents |-> parents,
                                      config |-> steps]),
                executed)

\* parent_ids is the list of the request; parents is the list the query
\* DataSource.id.in_(parent_ids) returned (rows in the order the database chose)
create_preprocess(parent_ids, parents, steps) ==
    IF Len(parent_ids) \notin {1, 2}
    THEN Raise(400, "Preprocess must have 1 or 2 parent datasources")
    ELSE IF Len(parents) # Len(parent_ids)
    THEN Raise(404, "One or more parent datasources not found")
    ELSE
    LET child_id == Len(datasources) + 1
        pp == [datasource_child_id |-> child_id,
               datasource_parents |-> parents,
               config |-> steps]
    IN Result(200, "ok", Len(preprocesses) + 1,
              Append(datasources, [schema_json |-> <<>>, active_snapshot_id |-> None]),
              snapshots, files, Append(preprocesses, pp), executed)

\* the lists db.query(DataSource).filter(DataSource.id.in_(parent_ids)).all() can
\* return: one row per distinct existing id, in either order
RECURSIVE Perms(_)
Perms(S) ==
    IF S = {} THEN { <<>> }
    ELSE UNION { { <<x>> \o p : p \in Perms(S \ {x}) } : x \in S }

QueryParents(parent_ids) == Perms({ id \in Range(parent_ids) : IsDs(id) })

\* ---- services/preprocessors ------------------------------------------------
\* rename_column with params {from: "a", to: "b"}
rename_column(df) ==
    [cols |-> [i \in 1..Len(df.cols) |-> IF df.cols[i] = "a" THEN "b" ELSE df.cols[i]],
     rows |-> df.rows]

\* the right rows that match one left cell, as copies of the key
RECURSIVE matches(_, _)
matches(cell, right_rows) ==
    IF right_rows = <<>> THEN <<>>
    ELSE (IF Head(right_rows) = cell THEN <<cell>> ELSE <<>>)
         \o matches(cell, Tail(right_rows))

RECURSIVE merge_rows(_, _)
merge_rows(left_rows, right_rows) ==
    IF left_rows = <<>> THEN <<>>
    ELSE matches(Head(left_rows), right_rows) \o merge_rows(Tail(left_rows), right_rows)

\* join_step with params {left_keys: ["a"], right_keys: ["a"], how: "inner"}
join_step(leftDf, rightDf) ==
    [cols |-> <<"a">>, rows |-> merge_rows(leftDf.rows, rightDf.rows)]

\* ---- routers/preprocess.execute_preprocess ---------------------------------
\* a request body: snapshot_id (None when absent) and the map datasource id ->
\* snapshot id (the empty function when absent or {})
ExecuteRequest(snapshot_id, snaps) == [snapshot_id |-> snapshot_id, snapshots |-> snaps]

\* w is what the handler's session sees: the DataSource rows as db.get answers
\* them (w.datasources), the snapshot table with the flushed rows, and the
\* files on disk
maybe_copy_snap(w, snap_id, t) ==
    LET snap == w.snapshots[snap_id]
        ds_id == snap.datasource_id
        copy_path == CopyPath(ds_id, t)
    IN IF w.datasources[ds_id].active_snapshot_id = snap_id
       THEN IF copy_path = snap.path
            \* shutil.copy raises SameFileError
            THEN [err |-> TRUE, snapshots |-> w.snapshots, files |-> w.files,
                  snap |-> snap_id]
            ELSE [err |-> FALSE,
                  snapshots |-> Append(w.snapshots,
                                       [datasource_id |-> ds_id, path |-> copy_path]),
                  files |-> Put(w.files, copy_path, w.files[snap.path]),
                  snap |-> Len(w.snapshots) + 1]
       ELSE [err |-> FALSE, snapshots |-> w.snapshots, files |-> w.files,
             snap |-> snap_id]

\* line 99: pp.datasource_parents, the rows of the DataSources parent_ids as
\* the session with the rows view holds them
ParentRows(view, parent_ids) ==
    [i \in DOMAIN parent_ids |->
        [id |-> parent_ids[i], active_snapshot_id |-> view[parent_ids[i]].active_snapshot_id]]

\* lines 151-170: the left and right snapshot ids of a join step.
\* parent_ds_list are the DataSource rows of the parents (id and
\* active_snapshot_id), as the session holds them.
resolve_join(parent_ds_list, req, step) ==
    LET use_map == DOMAIN req.snapshots # {} /\ Len(parent_ds_list) >= 2
        get(d) == IF d \in DOMAIN req.snapshots THEN req.snapshots[d] ELSE None
        l1 == IF use_map THEN get(parent_ds_list[1].id) ELSE None
        r1 == IF use_map THEN get(parent_ds_list[2].id) ELSE None
        l2 == IF l1 = None
              THEN parent_ds_list[1].active_snapshot_id ELSE l1
        r2 == IF r1 = None /\ Len(parent_ds_list) > 1
              THEN parent_ds_list[2].active_snapshot_id ELSE r1
    IN [left |-> IF l2 = None THEN step.left_snapshot_id ELSE l2,
        right |-> IF r2 = None THEN step.right_snapshot_id ELSE r2]

\* the loop's state: acc.df is <<>> for None and <<table>> otherwise; acc.orig are
\* the snapshots resolved as inputs, acc.inputs what maybe_copy_snap returned for
\* them (input_snapshots) and acc.read the bytes read_csv was given; acc.view
\* are the DataSource rows as the handler's session holds them
StepError(acc, status, detail) == [acc EXCEPT !.status = status, !.detail = detail]

\* left_df and right_df are read from the bytes of the (copied) inputs and joined
join_frames(copied, left_bytes, right_bytes) ==
    IF "a" \notin Range(read_csv(left_bytes).cols)
       \/ "a" \notin Range(read_csv(right_bytes).cols)
    THEN StepError([copied EXCEPT !.read = copied.read \o <<left_bytes, right_bytes>>],
                   400, "Join failed: Missing key")
    ELSE [copied EXCEPT
            !.read = copied.read \o <<left_bytes, right_bytes>>,
            !.df = <<join_step(read_csv(left_bytes), read_csv(right_bytes))>>,
            !.details = copied.details \o
                <<[op |-> "join",
                   left_snapshot_id |-> copied.inputs[Len(copied.inputs) - 1],
                   right_snapshot_id |-> copied.inputs[Len(copied.inputs)],
                   how |-> "inner"]>>]

\* lines 180-183 and the join of lines 216-229, for the copies c1 (left) and c2
\* (right) that maybe_copy_snap returned
join_inputs(acc, rj, c1, c2) ==
    IF c1.err THEN StepError(acc, 500, "SameFileError")
    ELSE IF c2.err
    THEN StepError([acc EXCEPT !.snapshots = c1.snapshots, !.files = c1.files],
                   500, "SameFileError")
    ELSE join_frames([acc EXCEPT !.orig = acc.orig \o <<rj.left, rj.right>>,
                                 !.snapshots = c2.snapshots, !.files = c2.files,
                                 !.inputs = acc.inputs \o <<c1.snap, c2.snap>>],
                     c2.files[c2.snapshots[c1.snap].path],
                     c2.files[c2.snapshots[c2.snap].path])

\* the right copy is made in the session and on the disk the left copy left,
\* with the clock read again (t.later)
copy_right(acc, rj, c1, t) ==
    join_inputs(acc, rj, c1,
                maybe_copy_snap([datasources |-> acc.view, snapshots |-> c1.snapshots,
                                 files |-> c1.files],
                                rj.right, [t EXCEPT !.sec = t.later]))

\* resolved_join without the check of line 172: an unresolved side is looked up
\* like any other id
resolved_join_unchecked(acc, rj, t) ==
    IF ~IsSnap(rj.left) \/ ~IsSnap(rj.right)
    THEN StepError(acc, 404, "Join snapshot not found")
    ELSE copy_right(acc, rj,
                    maybe_copy_snap([datasources |-> acc.view, snapshots |-> acc.snapshots,
                                     files |-> acc.files],
                                    rj.left, t),
                    t)

\* lines 172-178, and the left copy of line 181
resolved_join(acc, rj, t) ==
    IF rj.left = None \/ rj.right = None
    THEN StepError(acc, 400, "Join requires two input snapshots")
    ELSE IF ~IsSnap(rj.left) \/ ~IsSnap(rj.right)
    THEN StepError(acc, 404, "Join snapshot not found")
    ELSE copy_right(acc, rj,
                    maybe_copy_snap([datasources |-> acc.view, snapshots |-> acc.snapshots,
                                     files |-> acc.files],
                                    rj.left, t),
                    t)

apply_join(step, acc, pp, req, t) ==
    resolved_join(acc, resolve_join(ParentRows(acc.view, pp.datasource_parents), req, step), t)

apply_step(step, acc, pp, req, t) ==
    IF step.op = "join" THEN apply_join(step, acc, pp, req, t)
    ELSE IF acc.df = <<>>
    THEN StepError(acc, 500, "NoneType has no such attribute")
    ELSE [acc EXCEPT !.df = <<rename_column(acc.df[1])>>,
                     !.details = acc.details \o <<[op |-> "rename_column"]>>]

RECURSIVE run_steps(_, _, _, _, _)
run_steps(steps, acc, pp, req, t) ==
    IF steps = <<>> \/ acc.status # 200 THEN acc
    ELSE run_steps(Tail(steps), apply_step(Head(steps), acc, pp, req, t), pp, req, t)

\* lines 242-257, for the state acc the step loop ended in without raising:
\* 6) the child's schema is committed, and with it every flushed copy.  This
\* commit ends the handler's first transaction.
first_commit(pp_id, acc) ==
    [datasources |-> [datasources EXCEPT
                         ![preprocesses[pp_id].datasource_child_id].schema_json
                             = <<exec_schema(acc.df[1])>>],
     snapshots |-> acc.snapshots,
     files |-> acc.files]

\* lines 259-291, in the stores w the handler finds after its first commit.
\* fault: the failure the environment injects into this call (Faults):
\* df.to_csv cannot create the file ("open"), raises with a part of its bytes
\* written (WriteFaults), or the final db.commit() raises ("commit")
write_output(pp_id, acc, w, t, fault) ==
    LET child_id == preprocesses[pp_id].datasource_child_id
        out_path == ExecPath(child_id, t)
        out_id == Len(w.snapshots) + 1
        exec_rec == [preprocess_id |-> pp_id,
                     snapshots |-> acc.inputs \o <<out_id>>,
                     details_json |-> acc.details]
        \* execution_snapshots has the primary key (execution, snapshot): linking
        \* one snapshot twice makes the final commit raise IntegrityError
        duplicate == \E i, j \in 1..Len(acc.inputs) : i < j /\ acc.inputs[i] = acc.inputs[j]
    IN IF fault = "open"
       THEN ResultT(500, "OSError", None, w.datasources, w.snapshots, w.files,
                    preprocesses, executed, acc)
       ELSE IF fault \in WriteFaults
       THEN ResultT(500, "OSError", None, w.datasources, w.snapshots,
                    Put(w.files, out_path, Left(to_csv(acc.df[1]), fault)),
                    preprocesses, executed, acc)
       ELSE IF fault = "commit" \/ duplicate
       THEN ResultT(500, "commit failed", None, w.datasources, w.snapshots,
                    Put(w.files, out_path, to_csv(acc.df[1])),
                    preprocesses, executed, acc)
       ELSE ResultT(200, "ok", Len(executed) + 1, w.datasources,
                    Append(w.snapshots, [datasource_id |-> child_id, path |-> out_path]),
                    Put(w.files, out_path, to_csv(acc.df[1])),
                    preprocesses, Append(executed, exec_rec), acc)

\* lines 242-291 when no other request is served between the two commits
persist_execution(pp_id, acc, t, fault) ==
    IF acc.status # 200
    \* the handler raised: the session is rolled back, the copied files stay
    THEN ResultT(acc.status, acc.detail, None, datasources, snapshots, acc.files,
                 preprocesses, executed, acc)
    ELSE write_output(pp_id, acc, first_commit(pp_id, acc), t, fault)

\* the state of the step loop before the first step, in a session that holds
\* the DataSource rows view
NoInput(view) ==
    [status |-> 200, detail |-> "ok", df |-> <<>>, view |-> view,
     snapshots |-> snapshots, files |-> files,
     orig |-> <<>>, inputs |-> <<>>, read |-> <<>>, details |-> <<>>]

\* lines 127-135: the DataFrame of a non-join execution, read from the copy c0
load_input(acc, snapshot_id, c0) ==
    IF c0.err THEN StepError(acc, 500, "SameFileError")
    ELSE [acc EXCEPT !.df = <<read_csv(c0.files[c0.snapshots[c0.snap].path])>>,
                     !.snapshots = c0.snapshots, !.files = c0.files,
                     !.orig = <<snapshot_id>>,
                     !.inputs = <<c0.snap>>,
                     !.read = <<c0.files[c0.snapshots[c0.snap].path]>>]

is_join(steps) == \E i \in 1..Len(steps) : steps[i].op = "join"

\* lines 93-240: the state the step loop ends in; status is not 200 when the
\* handler raised, before the loop or in it.  view are the DataSource rows as
\* the session of the call holds them: the rows it loaded since its last
\* commit, and the stored rows for the others.
execute_steps_in(view, pp_id, req, t) ==
    IF ~IsPp(pp_id) THEN StepError(NoInput(view), 404, "Preprocess not found")
    ELSE IF Len(preprocesses[pp_id].datasource_parents) = 0
    THEN StepError(NoInput(view), 500, "No parent datasource configured")
    ELSE IF is_join(preprocesses[pp_id].config)
    THEN run_steps(preprocesses[pp_id].config, NoInput(view), preprocesses[pp_id], req, t)
    ELSE IF req.snapshot_id = None
    THEN StepError(NoInput(view), 400, "snapshot_id required for non-join execution")
    ELSE IF ~IsSnap(req.snapshot_id)
    THEN StepError(NoInput(view), 404, "Snapshot not found")
    ELSE run_steps(preprocesses[pp_id].config,
                   load_input(NoInput(view), req.snapshot_id,
                              maybe_copy_snap([datasources |-> view, snapshots |-> snapshots,
                                               files |-> files],
                                              req.snapshot_id, t)),
                   preprocesses[pp_id], req, t)

\* the call of a request: get_db opens a session for it, which loads every row
\* it reads from the store
execute_steps(pp_id, req, t) == execute_steps_in(datasources, pp_id, req, t)

\* the handler when no other request is served between its two commits
execute_preprocess(pp_id, req, t, fault) ==
    persist_execution(pp_id, execute_steps(pp_id, req, t), t, fault)

\* ---- what a query without ORDER BY loads -----------------------------------------
\* ExecutedPreprocess.snapshots is a relationship without order_by and
\* db.query(ExecutedPreprocess).all() a query without ORDER BY: the database
\* hands the rows over in an order of its choosing.  loads is one such choice:
\* loads.all_exes the executions in the order the query returns them and
\* loads.snapshots[e] the linked snapshots of e in the order they are loaded.
RECURSIVE SnapshotLoads(_)
SnapshotLoads(n) ==
    IF n = 0 THEN { <<>> }
    ELSE { Append(f, p) : f \in SnapshotLoads(n - 1),
                          p \in Perms(Range(executed[n].snapshots)) }

Loads ==
    { [all_exes |-> a, snapshots |-> f] :
          a \in Perms(1..Len(executed)), f \in SnapshotLoads(Len(executed)) }

\* ---- routers/preprocess.list_executions ---------------------------------------
\* lines 347-352 and 365-374 for the execution e, whose linked snapshots the
\* relationship exe.snapshots has loaded in the order `loaded`: no record when
\* no linked snapshot belongs to a parent or none belongs to the child
executed_read(e, loaded) ==
    LET pp == preprocesses[executed[e].preprocess_id]
        input_ids == SelectSeq(loaded,
                         LAMBDA s : snapshots[s].datasource_id \in Range(pp.datasource_parents))
        outputs == SelectSeq(loaded,
                       LAMBDA s : snapshots[s].datasource_id = pp.datasource_child_id)
    IN IF input_ids = <<>> \/ outputs = <<>> THEN <<>>
       ELSE <<[id |-> e, preprocess_id |-> executed[e].preprocess_id,
               input_snapshots |-> input_ids, output_snapshot |-> outputs[1],
               details |-> executed[e].details_json]>>

\* the records of pp_id from row e on, in the order of created_at (the order of
\* the rows); exe.snapshots is taken in the order loads has it
RECURSIVE executions_from(_, _, _)
executions_from(pp_id, e, loads) ==
    IF e > Len(executed) THEN <<>>
    ELSE (IF executed[e].preprocess_id = pp_id
          THEN executed_read(e, loads.snapshots[e]) ELSE <<>>)
         \o executions_from(pp_id, e + 1, loads)

list_executions(pp_id, loads) ==
    IF ~IsPp(pp_id) THEN [status |-> 404, detail |-> "Preprocess not found", ret |-> <<>>]
    ELSE [status |-> 200, detail |-> "ok", ret |-> executions_from(pp_id, 1, loads)]

\* ---- routers/training ------------------------------------------------------
\* A row of the training and training_execution tables keeps its id (its
\* position) for ever; deleted marks a row that a DELETE has removed.
\* What a training handler leaves committed: the two training tables, and the
\* snapshot and executed_preprocess tables its session could reach; tasks are the
\* calls of run_training queued as background tasks (their execution ids).
TrainingResult(status, detail, trs, tes) ==
    [status |-> status, detail |-> detail, trainings |-> trs, training_executions |-> tes,
     snapshots |-> snapshots, executed |-> executed, tasks |-> tasks]

IsTraining(id) == id \in 1..Len(trainings) /\ ~trainings[id].deleted

create_training(datasource_id) ==
    IF ~IsDs(datasource_id)
    THEN TrainingResult(404, "Datasource not found", trainings, training_executions)
    ELSE IF datasources[datasource_id].schema_json = <<>>
    \* json.loads(None) raises TypeError
    THEN TrainingResult(500, "TypeError", trainings, training_executions)
    ELSE TrainingResult(200, "ok",
                        Append(trainings, [datasource_id |-> datasource_id, deleted |-> FALSE]),
                        training_executions)

execute_training(tr_id, snapshot_id) ==
    IF ~IsTraining(tr_id)
    THEN TrainingResult(404, "Training not found", trainings, training_executions)
    ELSE [TrainingResult(202, "ok", trainings,
                         Append(training_executions,
                                [training_id |-> tr_id, snapshot_id |-> snapshot_id,
                                 status |-> "running", metrics_json |-> "",
                                 deleted |-> FALSE]))
          \* background_tasks.add_task(run_training, execution_id=exec_rec.id, ...)
          EXCEPT !.tasks = tasks \cup {Len(training_executions) + 1}]

\* delete_training with a cascade onto the snapshots of the Training's DataSource
delete_training_cascade(tr_id) ==
    IF ~IsTraining(tr_id)
    THEN TrainingResult(404, "Training not found", trainings, training_executions)
    ELSE [TrainingResult(204, "ok",
                         [trainings EXCEPT ![tr_id].deleted = TRUE],
                         training_executions)
          EXCEPT !.snapshots =
                    SelectSeq(snapshots,
                              LAMBDA s : s.datasource_id # trainings[tr_id].datasource_id)]

delete_training(tr_id) ==
    IF ~IsTraining(tr_id)
    THEN TrainingResult(404, "Training not found", trainings, training_executions)
    ELSE TrainingResult(204, "ok",
                        [trainings EXCEPT ![tr_id].deleted = TRUE],
                        [i \in 1..Len(training_executions) |->
                            IF training_executions[i].training_id = tr_id
                            THEN [training_executions[i] EXCEPT !.deleted = TRUE]
                            ELSE training_executions[i]])

\* ---- services/automation ------------------------------------------------------
\* One call of run_automation_for_training (the scheduler's job), or of
\* _materialize_to_snapshot(db, target, {}) on its own.  auto.pc is the position
\* of the call: "idle" (no call yet), "materialize" (inside the recursion, about
\* to call execute_preprocess for the top frame), "executing" (inside that
\* call, after its first commit), "returned" (the call has committed and
\* returned to the activation below the top), "materialized" (the recursion
\* has returned auto.ret), "train" (the TrainingExecution is committed and
\* run_training is about to run), "done" (the call has returned) or "raised" (an
\* exception has left the call).  A frame of auto.stack is one activation of
\* _materialize_to_snapshot for a derived DataSource: ds, its Preprocess pp, the
\* parents it materializes (need) and the ids they gave so far (vals).
\* auto.computed lists the DataSources whose snapshot was computed (not taken
\* from memo), auto.ran the calls of execute_preprocess, in order.
\* The call and every execute_preprocess it calls share one Session
\* (expire_on_commit): a DataSource row the session has loaded answers db.get
\* and pp.datasource_parents until the session's next commit.  auto.cache is
\* the active_snapshot_id of the rows the session holds.
Idle ==
    [pc |-> "idle", training_id |-> None, target |-> None, stack |-> <<>>, memo |-> <<>>,
     computed |-> <<>>, ran |-> <<>>, ret |-> None, exec_rec |-> None,
     status |-> 200, detail |-> "", runs |-> 0, cache |-> <<>>]

\* the session loads the rows of the DataSources ids: a row it holds stays as
\* it was loaded
session_load(m, ids) ==
    [m EXCEPT !.cache = [d \in (DOMAIN m.cache) \cup { i \in ids : IsDs(i) } |->
                            IF d \in DOMAIN m.cache THEN m.cache[d]
                            ELSE datasources[d].active_snapshot_id]]

\* a commit of the session expires every row it holds
session_commit(m) == [m EXCEPT !.cache = <<>>]

\* the DataSource rows as a session that holds cache reads them
SessionView(cache) ==
    [d \in 1..Len(datasources) |->
        IF d \in DOMAIN cache
        THEN [datasources[d] EXCEPT !.active_snapshot_id = cache[d]]
        ELSE datasources[d]]

\* _root_active_snapshot_id without its check: None is returned for a DataSource
\* that is unknown or has no active snapshot
root_active_snapshot_id_unchecked(ds_id) ==
    [err |-> FALSE,
     snap |-> IF IsDs(ds_id) THEN datasources[ds_id].active_snapshot_id ELSE None]

root_active_snapshot_id(ds_id) ==
    IF ~IsDs(ds_id) \/ datasources[ds_id].active_snapshot_id = None
    THEN [err |-> TRUE, snap |-> None]
    ELSE [err |-> FALSE, snap |-> datasources[ds_id].active_snapshot_id]

\* db.query(Preprocess).filter(datasource_child_id == child_ds_id).first()
preprocess_producing_child(child_ds_id) ==
    IF \E p \in 1..Len(preprocesses) : preprocesses[p].datasource_child_id = child_ds_id
    THEN CHOOSE p \in 1..Len(preprocesses) :
            /\ preprocesses[p].datasource_child_id = child_ds_id
            /\ \A q \in 1..(p - 1) : preprocesses[q].datasource_child_id # child_ds_id
    ELSE None

\* an exception leaves the call: the session is closed
AutoRaise(m, status, detail) ==
    [m EXCEPT !.pc = "raised", !.status = status, !.detail = detail, !.cache = <<>>]

\* line 34: if target_ds_id in memo
memo_lookup(m, ds_id) == ds_id \in DOMAIN m.memo

\* an activation returns snap_id: to the top-level caller when the stack is
\* empty, else to the activation that called it
return_snapshot(m, snap_id) ==
    IF m.stack = <<>> THEN [m EXCEPT !.pc = "materialized", !.ret = snap_id]
    ELSE [m EXCEPT !.stack[Len(m.stack)].vals = Append(@, snap_id)]

\* lines 37-41: target_ds_id is a root
materialize_root(m, ds_id, root) ==
    IF root.err THEN AutoRaise(m, 400, "No active snapshot for datasource")
    ELSE return_snapshot([m EXCEPT !.memo = Put(@, ds_id, root.snap),
                                   !.computed = Append(@, ds_id)],
                         root.snap)

\* lines 43-52 and 57-58: the parents a derived DataSource has materialized
\* before its Preprocess is executed; pp.datasource_parents loads their rows
materialize_derived(m, ds_id, pp_id) ==
    IF preprocesses[pp_id].datasource_parents = <<>>
    THEN AutoRaise(m, 500, "Preprocess has no parents")
    ELSE [session_load(m, Range(preprocesses[pp_id].datasource_parents)) EXCEPT
            !.computed = Append(@, ds_id),
            !.stack = Append(@, [ds |-> ds_id, pp |-> pp_id,
                                 need |-> IF is_join(preprocesses[pp_id].config)
                                          THEN preprocesses[pp_id].datasource_parents
                                          ELSE <<preprocesses[pp_id].datasource_parents[1]>>,
                                 vals |-> <<>>])]

\* lines 34-43: the entry of _materialize_to_snapshot(db, target_ds_id, memo).
\* The row of a root is loaded by db.get in a step that began with a commit
\* or with an empty session, so that the session holds the stored row.
materialize_enter(m, ds_id) ==
    IF memo_lookup(m, ds_id) THEN return_snapshot(m, m.memo[ds_id])
    ELSE IF preprocess_producing_child(ds_id) = None
    THEN materialize_root(session_load(m, {ds_id}), ds_id, root_active_snapshot_id(ds_id))
    ELSE materialize_derived(m, ds_id, preprocess_producing_child(ds_id))

\* the recursion runs on, from parent to parent, until it has returned, has
\* raised, or the top activation has all its parents and calls execute_preprocess;
\* p.id (lines 52 and 58) loads the row of the parent it goes to
RECURSIVE materialize_to_snapshot(_)
materialize_to_snapshot(m) ==
    IF m.pc # "materialize" \/ m.stack = <<>> THEN m
    ELSE IF Len(m.stack[Len(m.stack)].vals) < Len(m.stack[Len(m.stack)].need)
    THEN LET p == m.stack[Len(m.stack)].need[Len(m.stack[Len(m.stack)].vals) + 1]
         IN materialize_to_snapshot(materialize_enter(session_load(m, {p}), p))
    ELSE m

\* the call begins: _materialize_to_snapshot(db, target, memo={})
materialize_start(training_id, target) ==
    materialize_to_snapshot(
        materialize_enter([Idle EXCEPT !.pc = "materialize", !.training_id = training_id,
                                       !.target = target, !.runs = auto.runs + 1],
                          target))

\* lines 52-53 and 58-59: the request the top activation f sends
materialize_request(f) ==
    IF is_join(preprocesses[f.pp].config)
    THEN ExecuteRequest(None, [d \in Range(f.need) |->
                                  f.vals[CHOOSE i \in 1..Len(f.need) : f.need[i] = d]])
    ELSE ExecuteRequest(f.vals[1], <<>>)

\* lines 54-64: execute_preprocess has answered r to the top activation f,
\* after the commit that ended it, and the activation returns the output
\* snapshot: to the top-level caller, or to the activation that called it
\* ("returned"), which has loaded nothing since the commit
materialize_executed(m, f, req, r) ==
    IF r.status # 200
    THEN AutoRaise([m EXCEPT !.ran = Append(@, [pp |-> f.pp, req |-> req, exe |-> None])],
                   r.status, r.detail)
    ELSE LET back == return_snapshot([session_commit(m) EXCEPT
                                          !.stack = SubSeq(@, 1, Len(@) - 1),
                                          !.memo = Put(@, f.ds, Len(r.snapshots)),
                                          !.ran = Append(@, [pp |-> f.pp, req |-> req,
                                                             exe |-> r.ret])],
                                     Len(r.snapshots))
         IN IF back.pc = "materialize" THEN [back EXCEPT !.pc = "returned"] ELSE back

\* lines 52 and 58: the activation a nested call has returned to goes on to its
\* next parent, whose row p.id loads as it is stored now, or to its own call of
\* execute_preprocess
materialize_resume(m) == materialize_to_snapshot([m EXCEPT !.pc = "materialize"])

\* run_automation_for_training, lines 69-73
run_automation_for_training(training_id) ==
    IF ~IsTraining(training_id)
    THEN AutoRaise([Idle EXCEPT !.training_id = training_id, !.runs = auto.runs + 1],
                   404, "Training not found")
    ELSE materialize_start(training_id, trainings[training_id].datasource_id)

\* lines 75-86: the TrainingExecution of the run
automation_exec_rec(m) ==
    [training_id |-> m.training_id, snapshot_id |-> m.ret,
     status |-> "running", metrics_json |-> "", deleted |-> FALSE]

\* services/Trainings.run_training: outcome is "success", or "failed" when
\* anything inside its try block raised; the except block records the failure.
\* For an execution that is no longer on record db.get returns None: the try
\* block raises AttributeError, and so does `exec_rec.status = "failed"` in the
\* except block, which leaves the call with nothing written.
run_training(execution_id, outcome) ==
    IF training_executions[execution_id].deleted THEN training_executions
    ELSE [training_executions EXCEPT
            ![execution_id].status = outcome,
            ![execution_id].metrics_json = IF outcome = "failed" THEN "error" ELSE "metrics"]

\* how the try block of run_training can end: db.get(Snapshot, snapshot_id) is
\* None for an unknown id and `snap.path` raises; otherwise the training itself
\* succeeds or raises
training_outcomes(execution_id) ==
    IF /\ IsSnap(training_executions[execution_id].snapshot_id)
       /\ IsTraining(training_executions[execution_id].training_id)
    THEN {"success", "failed"}
    ELSE {"failed"}

\* ---- routers/training.list_preprocess_steps -----------------------------------
\* all_exes is the executed_preprocess table in the order loads.all_exes, and
\* exe.snapshots the linked snapshots in the order loads.snapshots[exe].
\* the executions that pass the `produced` test for snap_id: snap_id is linked to
\* them and belongs to the child DataSource of their Preprocess
ProducedBy(snap_id) ==
    { e \in 1..Len(executed) :
        /\ snap_id \in Range(executed[e].snapshots)
        /\ snapshots[snap_id].datasource_id
               = preprocesses[executed[e].preprocess_id].datasource_child_id }

RECURSIVE recurse(_, _)
RECURSIVE recurse_inputs(_, _, _)
\* lines 306-328: the first such execution of all_exes, its inputs from
\* position k on, then its own details
recurse(snap_id, loads) ==
    IF ~IsSnap(snap_id) \/ ProducedBy(snap_id) = {} THEN <<>>
    ELSE LET first == CHOOSE i \in 1..Len(loads.all_exes) :
                          /\ loads.all_exes[i] \in ProducedBy(snap_id)
                          /\ \A j \in 1..(i - 1) : loads.all_exes[j] \notin ProducedBy(snap_id)
             exe == loads.all_exes[first]
         IN recurse_inputs(exe, 1, loads) \o executed[exe].details_json

\* lines 315-318: for inp in exe.snapshots: if inp.datasource_id in parent_ids
recurse_inputs(exe, k, loads) ==
    IF k > Len(loads.snapshots[exe]) THEN <<>>
    ELSE (IF snapshots[loads.snapshots[exe][k]].datasource_id
                \in Range(preprocesses[executed[exe].preprocess_id].datasource_parents)
          THEN recurse(loads.snapshots[exe][k], loads)
          ELSE <<>>)
         \o recurse_inputs(exe, k + 1, loads)

list_preprocess_steps(training_id, exec_id, loads) ==
    IF \/ exec_id \notin 1..Len(training_executions)
       \/ training_executions[exec_id].deleted
       \/ training_executions[exec_id].training_id # training_id
    THEN [status |-> 404, ret |-> <<>>]
    ELSE [status |-> 200, ret |-> recurse(training_executions[exec_id].snapshot_id, loads)]

\* ---- routers/deployment.monitor_model, step 7 ---------------------------------
\* the walk without the `seen` set
collect_root_snapshots_unseen(stack, seen, root_ids) ==
    LET RECURSIVE walk(_, _)
        walk(st, ids) ==
            IF st = <<>> THEN ids
            ELSE LET cur == st[Len(st)]
                     rest == SubSeq(st, 1, Len(st) - 1)
                     pps == SelectSeq([p \in 1..Len(preprocesses) |-> p],
                                      LAMBDA p : preprocesses[p].datasource_child_id = cur)
                 IN IF pps = <<>>
                    THEN walk(rest, IF datasources[cur].active_snapshot_id # None
                                    THEN Append(ids, datasources[cur].active_snapshot_id)
                                    ELSE ids)
                    ELSE walk(rest \o preprocesses[pps[1]].datasource_parents, ids)
    IN walk(stack, root_ids)

\* the parents pushed for the Preprocesses pps, in order
RECURSIVE pushed_parents(_)
pushed_parents(pps) ==
    IF pps = <<>> THEN <<>>
    ELSE preprocesses[Head(pps)].datasource_parents \o pushed_parents(Tail(pps))

\* lines 374-395: the loop `while stack`, from the state (stack, seen, root_ids)
RECURSIVE collect_root_snapshots(_, _, _)
collect_root_snapshots(stack, seen, root_ids) ==
    IF stack = <<>> THEN root_ids
    ELSE LET cur == stack[Len(stack)]
             rest == SubSeq(stack, 1, Len(stack) - 1)
             pps == SelectSeq([p \in 1..Len(preprocesses) |-> p],
                              LAMBDA p : preprocesses[p].datasource_child_id = cur)
         IN IF cur \in seen THEN collect_root_snapshots(rest, seen, root_ids)
            ELSE IF pps = <<>>
            THEN collect_root_snapshots(
                     rest, seen \cup {cur},
                     IF datasources[cur].active_snapshot_id # None
                     THEN Append(root_ids, datasources[cur].active_snapshot_id)
                     ELSE root_ids)
            ELSE collect_root_snapshots(rest \o pushed_parents(pps), seen \cup {cur}, root_ids)

\* ---- services/customCode -------------------------------------------------------
\* One call of run_custom_step / run_custom_join: the calling process (sandbox.pc)
\* and the worker process it starts (sandbox.worker), which runs the user
\* function and hands its answer over through a multiprocessing.Queue.  A put
\* leaves the message with the queue's feeder thread (unsent), which writes it
\* into the pipe; the pipe holds PipeCapacity units until the caller reads, and
\* a worker does not exit before its feeder thread has written everything.
\* Time is counted in seconds of the caller's p.join(timeout): elapsed.
\* kind is what the user code does, work the seconds its function runs for and
\* size the units the pickled message takes up: the table a function returns,
\* or the text of the exception it raises (f"Runtime error: {str(e)}"); the
\* other messages are fixed texts of one unit.
TIME_LIMIT_SECONDS == 5

PipeCapacity == 2

\* "quits" is user code that ends the worker with exit code 0 by an exception
\* that is no Exception (SystemExit(0)): neither except clause of _worker
\* catches it and nothing is put on the queue
Kinds ==
    {"table", "not_table", "raises", "undefined", "memory", "loops", "crashes", "quits"}

NoSandbox ==
    [pc |-> "idle", func_name |-> "", kind |-> "", work |-> 0, size |-> 0,
     worker |-> "none", msg |-> "", unsent |-> 0, pipe |-> 0,
     elapsed |-> 0, finished |-> -1, status |-> 0, detail |-> "", ret |-> 0]

\* _worker, lines 89-110: what the worker puts on the queue
worker_message(func_name, kind) ==
    IF kind = "undefined"
    THEN (IF func_name = "step" THEN "Function step not defined."
          ELSE "Function join_step not defined.")
    ELSE IF kind = "not_table" THEN "Return value must be a pandas DataFrame."
    ELSE IF kind = "memory" THEN "Memory limit exceeded."
    ELSE IF kind = "raises" THEN "Runtime error"
    ELSE "success"

\* _run_in_sandbox, lines 116-120: the queue is created and the worker started
run_in_sandbox(func_name, kind, work, size) ==
    [NoSandbox EXCEPT !.pc = "joining", !.func_name = func_name, !.kind = kind,
                      !.work = work, !.size = size, !.worker = "running"]

\* _run_in_sandbox, lines 125-128: the worker is still alive after the join
time_limit_exceeded(sb) ==
    [sb EXCEPT !.pc = "raised", !.worker = "terminated",
               !.status = 400, !.detail = "Time limit exceeded (5s)."]

\* _run_in_sandbox, lines 130-144: the worker has exited
join_returned(sb) ==
    IF sb.worker = "crashed"
    THEN [sb EXCEPT !.pc = "raised", !.status = 400,
                    !.detail = "Process crashed (possibly memory limit exceeded)."]
    ELSE IF sb.pipe = 0
    THEN [sb EXCEPT !.pc = "raised", !.status = 400,
                    !.detail = "No result returned from worker."]
    ELSE IF sb.msg # "success"
    THEN [sb EXCEPT !.pc = "raised", !.pipe = 0, !.status = 400, !.detail = sb.msg]
    ELSE [sb EXCEPT !.pc = "returned", !.pipe = 0, !.status = 200, !.ret = sb.size]

\* ---- the state machine ------------------------------------------------------
\* the time a call reads: the current second, and a microsecond reading no
\* earlier call has had (in each directory, the number of files written so far).
\* later is the second the handler reads when it looks at the clock again.
Time ==
    [sec |-> now, later |-> now,
     us |-> [d \in 1..(MaxDs + 1) |-> Cardinality({ p \in DOMAIN files : p[1] = d })]]

\* The handlers that have begun and not yet answered: the calls of
\* execute_preprocess between their two commits (execute), the coroutines of
\* upload_snapshot at their await (upload), and the calls of run_training that
\* have read their rows (training), and the coroutines of the ingest at their
\* await (ingest).
NoneInFlight == [execute |-> {}, upload |-> {}, training |-> {}, ingest |-> {}]

\* the calls of execute_preprocess made by `by` (the API or the automation job)
\* that are between their two commits
Executing(by) == { h \in inflight.execute : h.by = by }

Init ==
    /\ datasources = <<>>
    /\ snapshots = <<>>
    /\ files = <<>>
    /\ preprocesses = <<>>
    /\ executed = <<>>
    /\ now = 0
    /\ born = <<>>
    /\ consumed = <<>>
    /\ calls = 0
    /\ trainings = <<>>
    /\ training_executions = <<>>
    /\ auto = Idle
    /\ tasks = {}
    /\ sandbox = NoSandbox
    /\ inflight = NoneInFlight

\* a call that left the stores and the files as they were
NoEffect(r) ==
    /\ r.datasources = datasources
    /\ r.snapshots = snapshots
    /\ r.files = files
    /\ r.preprocesses = preprocesses
    /\ r.executed = executed

WithinBounds(r) ==
    /\ Len(r.datasources) <= MaxDs
    /\ Len(r.snapshots) <= MaxSnaps
    /\ Len(r.preprocesses) <= MaxPp
    /\ Len(r.executed) <= MaxExec
    /\ Cardinality(DOMAIN r.files) <= MaxFiles
    /\ \A p \in DOMAIN r.files : Len(r.files[p].rows) <= MaxRows

\* what the handler left committed becomes the state; born keeps the bytes
\* every snapshot's file held when its record was committed
Committed(r) ==
    /\ WithinBounds(r)
    /\ datasources' = r.datasources
    /\ snapshots' = r.snapshots
    /\ files' = r.files
    /\ preprocesses' = r.preprocesses
    /\ executed' = r.executed
    /\ born' = [i \in 1..Len(r.snapshots) |->
                  IF i <= Len(born) THEN born[i] ELSE r.files[r.snapshots[i].path]]
    /\ UNCHANGED <<trainings, training_executions, tasks, sandbox>>

\* the handler answers r; calls counts the calls (and clock ticks) that changed
\* anything, and the ingests begun.  At MaxCalls no further request is
\* taken; a handler in flight goes on.
Respond(r) ==
    /\ Committed(r)
    /\ calls < MaxCalls \/ NoEffect(r)
    /\ calls' = IF NoEffect(r) THEN calls ELSE calls + 1
    /\ UNCHANGED now

\* the answer of a training handler: the lineage stores and the files are not
\* within its reach
RespondTraining(r) ==
    /\ Len(r.trainings) <= MaxTrain
    /\ Len(r.training_executions) <= MaxTrainExec
    /\ calls < MaxCalls \/ (r.trainings = trainings /\ r.training_executions = training_executions)
    /\ trainings' = r.trainings
    /\ training_executions' = r.training_executions
    /\ calls' = IF r.trainings = trainings /\ r.training_executions = training_executions
                THEN calls ELSE calls + 1
    /\ snapshots' = r.snapshots
    /\ executed' = r.executed
    /\ tasks' = r.tasks
    /\ UNCHANGED <<datasources, files, preprocesses, now, born, consumed, sandbox, inflight>>

\* the wall clock (datetime.utcnow()) reaches the next second
TickSec ==
    /\ now < MaxSec
    /\ calls < MaxCalls
    /\ now' = now + 1
    /\ calls' = calls + 1
    /\ UNCHANGED <<datasources, snapshots, files, preprocesses, executed, born, consumed,
                   trainings, training_executions, auto, tasks, sandbox, inflight>>

\* POST /datasources/with-snapshot/ as far as the await of line 37: the
\* coroutine has flushed its DataSource row (lines 33-34), which no other
\* session sees, and waits for the bytes of the upload.  The call is counted
\* here.  Where the database locks the table for the flushed row (SQLite), a
\* write of another request waits until the ingest has committed; elsewhere it
\* is committed while the ingest waits: both orders are behaviours.
Ingest ==
    \E filename \in FileNames :
        /\ Cardinality(inflight.ingest) < MaxInflight
        /\ calls < MaxCalls
        /\ calls' = calls + 1
        /\ inflight' = [inflight EXCEPT !.ingest = @ \cup {[filename |-> filename]}]
        /\ UNCHANGED <<datasources, snapshots, files, preprocesses, executed, now, born,
                       consumed, trainings, training_executions, auto, tasks, sandbox>>

\* the coroutine h goes on after the await (lines 37-93) and answers r
IngestAnswers(h, r) ==
    /\ Committed(r)
    /\ inflight' = [inflight EXCEPT !.ingest = @ \ {h}]
    /\ UNCHANGED <<now, calls, consumed, auto>>

\* the ingest goes on with the bytes it was sent
IngestWrite ==
    \E h \in inflight.ingest :
        \E content \in IngestBytes :
            IngestAnswers(h, create_datasource_with_snapshot(content, h.filename, Time,
                                                             "none"))

\* POST /datasources/{id}/snapshots/ as far as the await of line 109: the
\* handler has read the stored schema, or has answered 404
Upload ==
    \E datasource_id \in 1..(Len(datasources) + 1) :
        IF ~IsDs(datasource_id)
        THEN /\ Respond(Raise(404, "Datasource not found"))
             /\ UNCHANGED <<consumed, auto, inflight>>
        ELSE /\ Cardinality(inflight.upload) < MaxInflight
             /\ inflight' = [inflight EXCEPT
                               !.upload = @ \cup {[datasource_id |-> datasource_id,
                                                   stored_cols |->
                                                       upload_stored_cols(datasource_id)]}]
             /\ UNCHANGED <<datasources, snapshots, files, preprocesses, executed, now, born,
                            consumed, calls, trainings, training_executions, auto, tasks,
                            sandbox>>

\* the coroutine h goes on after the await, with the bytes it was sent
UploadWrite ==
    \E h \in inflight.upload :
        \E content \in UploadBytes, filename \in FileNames :
            /\ Respond(upload_write(h.datasource_id, h.stored_cols, content, filename,
                                    Time, "none"))
            /\ inflight' = [inflight EXCEPT !.upload = @ \ {h}]
            /\ UNCHANGED <<consumed, auto>>

SetActive ==
    \E ds_id \in 1..(Len(datasources) + 1), snapshot_id \in 1..(Len(snapshots) + 1) :
        /\ calls < MaxCalls
        /\ Respond(set_active_snapshot(ds_id, snapshot_id))
        /\ UNCHANGED <<consumed, auto, inflight>>

AppendRows ==
    \E ds_id \in 1..(Len(datasources) + 1), rows \in AppendRequests :
        /\ calls < MaxCalls
        /\ Respond(append_rows(ds_id, rows))
        /\ UNCHANGED <<consumed, auto, inflight>>

\* parent_ids lists of a request: up to two ids, known or unknown, or too many
ParentLists ==
    UNION { [1..n -> 1..(Len(datasources) + 1)] : n \in 0..2 } \cup { <<1, 2, 3>> }

CreatePreprocess ==
    \E parent_ids \in ParentLists, steps \in Configs :
        /\ calls < MaxCalls
        /\ \E parents \in QueryParents(parent_ids) :
            /\ Respond(create_preprocess(parent_ids, parents, steps))
            /\ UNCHANGED <<consumed, auto, inflight>>

\* the step lists without legacy parameters: a rename, or a join that names no
\* snapshot ids of its own (left_snapshot_id, right_snapshot_id)
PlainConfigs == { <<RenameStep>>, <<JoinStep(None, None)>> }

\* create_preprocess with such a step list
CreatePlain ==
    \E parent_ids \in ParentLists, steps \in PlainConfigs :
        /\ calls < MaxCalls
        /\ \E parents \in QueryParents(parent_ids) :
            /\ Respond(create_preprocess(parent_ids, parents, steps))
            /\ UNCHANGED <<consumed, auto, inflight>>

\* the maps a request can carry for a Preprocess: any snapshot id, "" or an
\* unknown id for any subset of its parents
RequestMaps(pp_id) ==
    IF ~IsPp(pp_id) THEN { <<>> }
    ELSE UNION { [K -> 0..(Len(snapshots) + 1)] :
                    K \in SUBSET Range(preprocesses[pp_id].datasource_parents) }

Requests(pp_id) ==
    { ExecuteRequest(s, <<>>) : s \in 0..(Len(snapshots) + 1) }
    \cup { ExecuteRequest(None, m) : m \in RequestMaps(pp_id) }

\* consumed keeps, for every recorded execution, the request, the snapshots
\* resolved as its inputs and the bytes it read
Consumed(req, r) ==
    consumed' = IF Len(r.executed) > Len(executed)
                THEN Append(consumed, [req |-> req, orig |-> r.trace.orig,
                                       read |-> r.trace.read])
                ELSE consumed

\* the handler called by `by` (the API or the automation job), as it waits
\* between its first commit and the write of its output
Suspended(pp_id, req, acc, by) ==
    [pp_id |-> pp_id, req |-> req, by |-> by,
     acc |-> [acc EXCEPT !.snapshots = <<>>, !.files = <<>>, !.view = <<>>]]

\* execute_preprocess is called and runs as far as the exception that ends it or
\* as its first commit (line 257), in a session that holds the DataSource rows
\* view.  tick = 1: the clock reaches the next second between the two copies
\* of a join (lines 181 and 182).
ExecuteCalled(view, pp_id, req, tick, by) ==
    LET t == [Time EXCEPT !.later = now + tick]
        acc == execute_steps_in(view, pp_id, req, t)
        w == first_commit(pp_id, acc)
    IN /\ by = "api" => calls + tick < MaxCalls
       /\ tick = 1 => now < MaxSec /\ Len(acc.snapshots) = Len(snapshots) + 2
       /\ now' = now + tick
       /\ IF acc.status # 200
          THEN LET r == persist_execution(pp_id, acc, t, "none")
               IN /\ Committed(r)
                  /\ calls + tick < MaxCalls \/ (NoEffect(r) /\ tick = 0)
                  /\ calls' = IF NoEffect(r) THEN calls + tick ELSE calls + tick + 1
                  /\ UNCHANGED <<consumed, inflight>>
          ELSE /\ Cardinality(Executing(by)) < MaxInflight
               /\ Committed(ResultT(200, "ok", None, w.datasources, w.snapshots, w.files,
                                    preprocesses, executed, acc))
               /\ calls + tick < MaxCalls
               /\ calls' = calls + tick + 1
               /\ inflight' = [inflight EXCEPT
                                 !.execute = @ \cup {Suspended(pp_id, req, acc, by)}]
               /\ UNCHANGED consumed

\* the handler h goes on after its first commit: it writes its output and
\* commits the output Snapshot and the ExecutedPreprocess (lines 259-291), in
\* the stores as they are by now, and answers r
ExecuteAnswers(h, r) ==
    /\ Committed(r)
    /\ Consumed(h.req, r)
    /\ inflight' = [inflight EXCEPT !.execute = @ \ {h}]
    /\ UNCHANGED <<now, calls>>

AnswerOf(h, fault) ==
    write_output(h.pp_id, h.acc,
                 [datasources |-> datasources, snapshots |-> snapshots, files |-> files],
                 Time, fault)

\* POST /preprocesses/{pp_id}/execute/
Execute ==
    \E pp_id \in 1..(Len(preprocesses) + 1) :
        \E req \in Requests(pp_id), tick \in 0..1 :
            /\ ExecuteCalled(datasources, pp_id, req, tick, "api")
            /\ UNCHANGED auto

\* a handler called through the API goes on; the disk or the database may fail
\* in any call that comes this far
ExecuteOutput ==
    \E h \in inflight.execute, fault \in Faults :
        /\ h.by = "api"
        /\ ExecuteAnswers(h, AnswerOf(h, fault))
        /\ UNCHANGED auto

CreateTraining ==
    \E datasource_id \in 1..(Len(datasources) + 1) :
        calls < MaxCalls /\ RespondTraining(create_training(datasource_id)) /\ UNCHANGED auto

ExecuteTraining ==
    \E tr_id \in 1..(Len(trainings) + 1), snapshot_id \in 1..(Len(snapshots) + 1) :
        /\ calls < MaxCalls
        /\ RespondTraining(execute_training(tr_id, snapshot_id))
        /\ UNCHANGED auto

DeleteTraining ==
    \E tr_id \in 1..(Len(trainings) + 1) :
        calls < MaxCalls /\ RespondTraining(delete_training(tr_id)) /\ UNCHANGED auto

Next ==
    \/ TickSec
    \/ Ingest
    \/ IngestWrite
    \/ Upload
    \/ UploadWrite
    \/ SetActive
    \/ AppendRows
    \/ CreatePreprocess
    \/ Execute
    \/ ExecuteOutput
    \/ CreateTraining
    \/ ExecuteTraining
    \/ DeleteTraining

Spec == Init /\ [][Next]_vars

\* ---- the background trainings ------------------------------------------------
\* a queued background task begins run_training for its execution id: it reads
\* its rows (lines 147-153).  For an execution that is no longer on record the
\* task ends here, by the exception of its except block.
RunTraining ==
    \E execution_id \in tasks :
        /\ tasks' = tasks \ {execution_id}
        /\ inflight' = IF training_executions[execution_id].deleted THEN inflight
                       ELSE [inflight EXCEPT !.training = @ \cup {execution_id}]
        /\ UNCHANGED <<datasources, snapshots, files, preprocesses, executed, now, born,
                       consumed, calls, trainings, training_executions, auto, sandbox>>

\* run_training comes to its last commit (line 366, or 376 after a failure)
RunTrainingEnds ==
    \E execution_id \in inflight.training :
        /\ \E outcome \in training_outcomes(execution_id) :
               training_executions' = run_training(execution_id, outcome)
        /\ inflight' = [inflight EXCEPT !.training = @ \ {execution_id}]
        /\ UNCHANGED <<datasources, snapshots, files, preprocesses, executed, now, born,
                       consumed, calls, trainings, auto, tasks, sandbox>>

\* Trainings are created, executed and deleted through the API while the
\* background tasks run; every queued task is run in the end.
NextTraining ==
    \/ TickSec
    \/ Ingest
    \/ IngestWrite
    \/ Upload
    \/ UploadWrite
    \/ CreateTraining
    \/ ExecuteTraining
    \/ DeleteTraining
    \/ RunTraining
    \/ RunTrainingEnds

SpecTraining ==
    Init /\ [][NextTraining]_vars /\ WF_vars(RunTraining) /\ WF_vars(RunTrainingEnds)

\* ---- the automation job ---------------------------------------------------------
\* The job runs in a thread of the BackgroundScheduler, or in the thread that
\* serves POST /trainings/{id}/automation/run_now, beside the threads that
\* serve the API.
\* a call begins in state m: nothing is written before the first execute_preprocess
AutoStarts(m) ==
    /\ \/ auto.pc \in {"idle", "done", "raised"}
       \/ auto.pc = "materialized" /\ auto.training_id = None
    /\ auto.runs < MaxRuns
    /\ auto' = m
    /\ UNCHANGED <<datasources, snapshots, files, preprocesses, executed, now, born, consumed,
                   calls, trainings, training_executions, tasks, sandbox, inflight>>

\* _materialize_to_snapshot(db, target, memo={}) is called for a DataSource id
Materialize ==
    \E target \in 1..(Len(datasources) + 1) :
        AutoStarts(materialize_start(None, target))

\* the scheduler's job fires for a training id (TrainingAutomationScheduler._job)
RunAutomation ==
    \E training_id \in 1..(Len(trainings) + 1) :
        AutoStarts(run_automation_for_training(training_id))

\* the recursion calls execute_preprocess for its top activation, in the job's
\* session: the call reads the DataSource rows the session holds as they were
\* loaded, and the others from the store.  It runs as far as its first
\* commit, or raises before.
MaterializeExecute ==
    /\ auto.pc = "materialize"
    /\ LET f == auto.stack[Len(auto.stack)]
           req == materialize_request(f)
           view == SessionView(auto.cache)
       IN \E tick \in 0..1 :
              LET t == [Time EXCEPT !.later = now + tick]
                  acc == execute_steps_in(view, f.pp, req, t)
              IN /\ ExecuteCalled(view, f.pp, req, tick, "job")
                 /\ auto' = IF acc.status # 200
                            THEN materialize_executed(auto, f, req,
                                                      persist_execution(f.pp, acc, t, "none"))
                            ELSE session_commit([auto EXCEPT !.pc = "executing"])

\* the call goes on after its first commit, as far as its last commit, and
\* answers the activation that made it
MaterializeOutput ==
    /\ auto.pc = "executing"
    /\ \E h \in inflight.execute, fault \in Faults :
           /\ h.by = "job"
           /\ ExecuteAnswers(h, AnswerOf(h, fault))
           /\ auto' = materialize_executed([auto EXCEPT !.pc = "materialize"],
                                           auto.stack[Len(auto.stack)], h.req,
                                           AnswerOf(h, fault))

\* the activation the call returned to runs on to its next call of
\* execute_preprocess: requests served since the commit are seen by the rows
\* it loads
MaterializeResume ==
    /\ auto.pc = "returned"
    /\ auto' = materialize_resume(auto)
    /\ UNCHANGED <<datasources, snapshots, files, preprocesses, executed, now, born, consumed,
                   calls, trainings, training_executions, tasks, sandbox, inflight>>

\* run_automation_for_training, lines 75-86
AutomationRecord ==
    /\ auto.pc = "materialized"
    /\ auto.training_id # None
    /\ Len(training_executions) < MaxTrainExec
    /\ calls < MaxCalls
    /\ training_executions' = Append(training_executions, automation_exec_rec(auto))
    /\ auto' = session_commit([auto EXCEPT !.pc = "train",
                                            !.exec_rec = Len(training_executions) + 1])
    /\ calls' = calls + 1
    /\ UNCHANGED <<datasources, snapshots, files, preprocesses, executed, now, born, consumed,
                   trainings, tasks, sandbox, inflight>>

\* run_automation_for_training, line 89: run_training is called and reads its
\* rows; the exception of its except block leaves it, and the job, when the
\* execution is no longer on record
AutomationTrain ==
    /\ auto.pc = "train"
    /\ auto' = IF training_executions[auto.exec_rec].deleted
               THEN AutoRaise(auto, 500, "AttributeError")
               ELSE [auto EXCEPT !.pc = "training"]
    /\ UNCHANGED <<datasources, snapshots, files, preprocesses, executed, now, born, consumed,
                   calls, trainings, training_executions, tasks, sandbox, inflight>>

\* run_training comes to its last commit and returns to the job (lines 89-91);
\* the commit raises StaleDataError when the execution was deleted meanwhile
AutomationTrained ==
    /\ auto.pc = "training"
    /\ calls < MaxCalls
    /\ \E outcome \in training_outcomes(auto.exec_rec) :
           training_executions' = run_training(auto.exec_rec, outcome)
    /\ auto' = IF training_executions[auto.exec_rec].deleted
               THEN AutoRaise(auto, 500, "StaleDataError")
               ELSE [auto EXCEPT !.pc = "done"]
    /\ calls' = calls + 1
    /\ UNCHANGED <<datasources, snapshots, files, preprocesses, executed, now, born, consumed,
                   trainings, tasks, sandbox, inflight>>

\* the API is served, and the background tasks run, while the job runs
NextAutomation ==
    \/ TickSec
    \/ Ingest
    \/ IngestWrite
    \/ Upload
    \/ UploadWrite
    \/ SetActive
    \/ AppendRows
    \/ CreatePreprocess
    \/ Execute
    \/ ExecuteOutput
    \/ CreateTraining
    \/ ExecuteTraining
    \/ DeleteTraining
    \/ RunTraining
    \/ RunTrainingEnds
    \/ Materialize
    \/ RunAutomation
    \/ MaterializeExecute
    \/ MaterializeOutput
    \/ MaterializeResume
    \/ AutomationRecord
    \/ AutomationTrain
    \/ AutomationTrained

SpecAutomation == Init /\ [][NextAutomation]_vars

\* ---- a snapshot consumed twice -----------------------------------------------------
\* Two calls that follow an execution (a second execution, a change of the
\* pointer, an append) take five calls with the ingest and the Preprocess
\* before them.  Here DataCalls calls can be made, of the handlers that read
\* and write the files of the snapshots, on Preprocesses with the step lists
\* of PlainConfigs.
DataCalls == 5

InitData ==
    /\ datasources = <<>>
    /\ snapshots = <<>>
    /\ files = <<>>
    /\ preprocesses = <<>>
    /\ executed = <<>>
    /\ now = 0
    /\ born = <<>>
    /\ consumed = <<>>
    /\ calls = MaxCalls - DataCalls
    /\ trainings = <<>>
    /\ training_executions = <<>>
    /\ auto = Idle
    /\ tasks = {}
    /\ sandbox = NoSandbox
    /\ inflight = NoneInFlight

NextData ==
    \/ Ingest
    \/ IngestWrite
    \/ CreatePlain
    \/ Execute
    \/ ExecuteOutput
    \/ SetActive
    \/ AppendRows

SpecData == InitData /\ [][NextData]_vars

\* ---- the job beside a change of a pointer -----------------------------------------
\* The same number of calls: a root with two snapshots, a Preprocess on it, and
\* a call of set_active_snapshot between two steps of the job.
NextJob ==
    \/ Ingest
    \/ IngestWrite
    \/ Upload
    \/ UploadWrite
    \/ CreatePlain
    \/ SetActive
    \/ Materialize
    \/ MaterializeExecute
    \/ MaterializeOutput
    \/ MaterializeResume

SpecJob == InitData /\ [][NextJob]_vars

\* ---- the stores under failures ---------------------------------------------------
\* the files offered to ingest: a CSV or a file of zero bytes
IngestContents == IngestBytes \cup {EmptyUpload}

\* the ingest goes on, with a failure of the disk or of the database in any call
StorageIngestWrite ==
    \E h \in inflight.ingest :
        \E content \in IngestContents, fault \in Faults :
            IngestAnswers(h, create_datasource_with_snapshot(content, h.filename, Time,
                                                             fault))

\* upload_snapshot, with a failure of the disk or of the database in any call
StorageUploadWrite ==
    \E h \in inflight.upload :
        \E content \in UploadBytes \cup {EmptyUpload}, filename \in FileNames,
           fault \in Faults :
            /\ Respond(upload_write(h.datasource_id, h.stored_cols, content, filename,
                                    Time, fault))
            /\ inflight' = [inflight EXCEPT !.upload = @ \ {h}]
            /\ UNCHANGED <<consumed, auto>>

\* The operations that create snapshots, each of which may fail between its
\* steps, and those that define Preprocesses.
NextStorage ==
    \/ Ingest
    \/ StorageIngestWrite
    \/ Upload
    \/ StorageUploadWrite
    \/ CreatePreprocess
    \/ Execute
    \/ ExecuteOutput

SpecStorage == Init /\ [][NextStorage]_vars

\* ---- pipelines of two Preprocesses -------------------------------------------------
\* A pipeline whose second Preprocess consumes an active output of the first
\* takes six calls: ingest, create, execute, set_active_snapshot, create,
\* execute.  Here the count of calls starts below zero, so that LineageCalls
\* calls can be made; no call fails for a reason of the environment, and only
\* the calls that build and run pipelines are made.
LineageCalls == 6

InitLineage ==
    /\ datasources = <<>>
    /\ snapshots = <<>>
    /\ files = <<>>
    /\ preprocesses = <<>>
    /\ executed = <<>>
    /\ now = 0
    /\ born = <<>>
    /\ consumed = <<>>
    /\ calls = MaxCalls - LineageCalls
    /\ trainings = <<>>
    /\ training_executions = <<>>
    /\ auto = Idle
    /\ tasks = {}
    /\ sandbox = NoSandbox
    /\ inflight = NoneInFlight

\* execute_preprocess of a Preprocess on record
LineageExecute ==
    \E pp_id \in 1..Len(preprocesses) :
        \E req \in Requests(pp_id), tick \in 0..1 :
            /\ ExecuteCalled(datasources, pp_id, req, tick, "api")
            /\ UNCHANGED auto

\* its output, without a failure of the disk or of the database
LineageOutput ==
    \E h \in inflight.execute :
        /\ ExecuteAnswers(h, AnswerOf(h, "none"))
        /\ UNCHANGED auto

\* set_active_snapshot for a derived DataSource
LineageSetActive ==
    \E ds_id \in 1..Len(datasources), snapshot_id \in 1..Len(snapshots) :
        /\ calls < MaxCalls
        /\ \E p \in 1..Len(preprocesses) : preprocesses[p].datasource_child_id = ds_id
        /\ Respond(set_active_snapshot(ds_id, snapshot_id))
        /\ UNCHANGED <<consumed, auto, inflight>>

NextLineage ==
    \/ Ingest
    \/ IngestWrite
    \/ CreatePlain
    \/ LineageExecute
    \/ LineageOutput
    \/ LineageSetActive

SpecLineage == InitLineage /\ [][NextLineage]_vars

\* ---- Trainings deleted beside the history ------------------------------------------
\* DataCalls calls, of the handlers that record executions and of those that
\* create and delete Trainings.
NextHistory ==
    \/ Ingest
    \/ IngestWrite
    \/ CreatePreprocess
    \/ Execute
    \/ ExecuteOutput
    \/ CreateTraining
    \/ DeleteTraining

SpecHistory == InitData /\ [][NextHistory]_vars

\* ---- the sandbox ---------------------------------------------------------------
Untouched ==
    UNCHANGED <<datasources, snapshots, files, preprocesses, executed, now, born, consumed,
                calls, trainings, training_executions, auto, tasks, inflight>>

\* run_custom_step / run_custom_join is called with some user code
SandboxCall ==
    /\ sandbox.pc = "idle"
    /\ \E func_name \in {"step", "join_step"}, kind \in Kinds, work \in 0..MaxWork,
          size \in 1..MaxSize :
           sandbox' = run_in_sandbox(func_name, kind, work, size)
    /\ Untouched

\* the user function has returned or raised (or was never defined): the worker
\* puts its message on the queue and goes on to exit
WorkerPuts ==
    /\ sandbox.worker = "running"
    /\ sandbox.kind \notin {"loops", "crashes", "quits"}
    /\ sandbox.work = 0
    /\ sandbox' = [sandbox EXCEPT
                      !.worker = "exiting",
                      !.finished = sandbox.elapsed,
                      !.msg = worker_message(sandbox.func_name, sandbox.kind),
                      !.unsent = IF sandbox.kind \in {"table", "raises"}
                                THEN sandbox.size ELSE 1]
    /\ Untouched

\* the worker process dies with a non-zero exit code
WorkerCrashes ==
    /\ sandbox.worker = "running"
    /\ sandbox.kind = "crashes"
    /\ sandbox.work = 0
    /\ sandbox' = [sandbox EXCEPT !.worker = "crashed", !.finished = sandbox.elapsed]
    /\ Untouched

\* the worker process ends with exit code 0 and has put nothing on the queue
WorkerQuits ==
    /\ sandbox.worker = "running"
    /\ sandbox.kind = "quits"
    /\ sandbox.work = 0
    /\ sandbox' = [sandbox EXCEPT !.worker = "exited", !.finished = sandbox.elapsed]
    /\ Untouched

\* the feeder thread writes on while the pipe has room
FeederWrites ==
    /\ sandbox.worker = "exiting"
    /\ sandbox.unsent > 0
    /\ sandbox.pipe < PipeCapacity
    /\ sandbox' = [sandbox EXCEPT !.unsent = @ - 1, !.pipe = @ + 1]
    /\ Untouched

\* the feeder thread has written everything: the worker exits with code 0
WorkerExits ==
    /\ sandbox.worker = "exiting"
    /\ sandbox.unsent = 0
    /\ sandbox' = [sandbox EXCEPT !.worker = "exited"]
    /\ Untouched

\* the worker can take a step without waiting: before the deadline its steps
\* take no time of the join
WorkerReady ==
    \/ ENABLED WorkerPuts
    \/ ENABLED WorkerCrashes
    \/ ENABLED WorkerQuits
    \/ ENABLED FeederWrites
    \/ ENABLED WorkerExits

\* a second of p.join(timeout=TIME_LIMIT_SECONDS) passes while the worker is
\* busy with the user function or blocked on the pipe
SandboxTick ==
    /\ sandbox.pc = "joining"
    /\ sandbox.worker \in {"running", "exiting"}
    /\ ~WorkerReady
    /\ sandbox.elapsed < TIME_LIMIT_SECONDS
    /\ sandbox' = [sandbox EXCEPT
                      !.elapsed = @ + 1,
                      !.work = IF sandbox.worker = "running" /\ sandbox.kind # "loops"
                               THEN @ - 1 ELSE @]
    /\ Untouched

\* p.join returns because the worker has exited
JoinReturns ==
    /\ sandbox.pc = "joining"
    /\ sandbox.worker \in {"exited", "crashed"}
    /\ sandbox' = join_returned(sandbox)
    /\ Untouched

\* p.join returns because the time limit has passed and p.is_alive() finds the
\* worker alive: at the deadline the caller races with a worker that is about
\* to put its message or to exit, and either may come first
JoinTimesOut ==
    /\ sandbox.pc = "joining"
    /\ sandbox.worker \in {"running", "exiting"}
    /\ sandbox.elapsed = TIME_LIMIT_SECONDS
    /\ sandbox' = time_limit_exceeded(sandbox)
    /\ Untouched

NextSandbox ==
    \/ SandboxCall
    \/ WorkerPuts
    \/ WorkerCrashes
    \/ WorkerQuits
    \/ FeederWrites
    \/ WorkerExits
    \/ SandboxTick
    \/ JoinReturns
    \/ JoinTimesOut

SpecSandbox == Init /\ [][NextSandbox]_vars

\* ---- the claims -------------------------------------------------------------
\* the bytes now stored at the file of snapshot i
Bytes(i) == files[snapshots[i].path]

\* C1 (immutability): the bytes stored at the file of every Snapshot are, at any
\* later time, the bytes stored there when the Snapshot was created.
C1_SnapshotBytesNeverChange ==
    \A i \in 1..Len(snapshots) : Bytes(i) = born[i]

\* the output snapshot of execution e, and whether e ran a Preprocess without join
Output(e) == executed[e].snapshots[Len(executed[e].snapshots)]

NonJoin(e) == ~is_join(preprocesses[executed[e].preprocess_id].config)

\* C2 (reproducibility): two successful executions of one Preprocess on the same
\* input snapshot id have distinct output Snapshots whose files hold identical
\* bytes.
C2_SameInputSameOutputBytes ==
    \A e1, e2 \in 1..Len(executed) :
        (/\ e1 < e2
         /\ executed[e1].preprocess_id = executed[e2].preprocess_id
         /\ NonJoin(e1)
         /\ consumed[e1].req.snapshot_id = consumed[e2].req.snapshot_id)
        => /\ Output(e1) # Output(e2)
           /\ Bytes(Output(e1)) = Bytes(Output(e2))

\* C3 (copy-on-write): when an execution consumed the active snapshot of a
\* DataSource (so that a copy was recorded as its input) and the active pointer
\* of that DataSource has changed since, the recorded input still holds the
\* bytes the execution read.
C3_ConsumedInputKeepsItsBytes ==
    \A e \in 1..Len(executed) :
        \A k \in 1..Len(consumed[e].orig) :
            (/\ executed[e].snapshots[k] # consumed[e].orig[k]
             /\ datasources[snapshots[consumed[e].orig[k]].datasource_id].active_snapshot_id
                    # consumed[e].orig[k])
            => Bytes(executed[e].snapshots[k]) = consumed[e].read[k]

\* the session and the disk a call starts from
World == [datasources |-> datasources, snapshots |-> snapshots, files |-> files]

\* C4 (copyIfActive): for a snapshot that is not the active one of its DataSource
\* maybe_copy_snap returns the snapshot and creates no file and no record; for
\* the active one it creates exactly one Snapshot record of the same DataSource,
\* at a path that held no file and is no other record's path, with the bytes of
\* the original, leaves every other file alone, and returns the new record.
C4_CopyIfActive ==
    \A s \in 1..Len(snapshots) :
        LET c == maybe_copy_snap(World, s, Time)
            ds_id == snapshots[s].datasource_id
        IN IF datasources[ds_id].active_snapshot_id # s
           THEN /\ ~c.err
                /\ c.snap = s
                /\ c.snapshots = snapshots
                /\ c.files = files
           ELSE /\ ~c.err
                /\ c.snapshots = Append(snapshots, c.snapshots[Len(c.snapshots)])
                /\ c.snap = Len(snapshots) + 1
                /\ c.snapshots[c.snap].datasource_id = ds_id
                /\ c.snapshots[c.snap].path \notin DOMAIN files
                /\ \A i \in 1..Len(snapshots) : snapshots[i].path # c.snapshots[c.snap].path
                /\ c.files = Put(files, c.snapshots[c.snap].path, Bytes(s))

\* the join Preprocesses, their join step and their parents
JoinPps == { p \in 1..Len(preprocesses) : is_join(preprocesses[p].config) }

JoinOf(p) == preprocesses[p].config[1]

Parents(p) == preprocesses[p].datasource_parents

\* the precedence of the specification for one side: the snapshot the map gives
\* for parent d, else the active snapshot of d, else the legacy parameter
Precedence(m, d, legacy) ==
    IF d \in DOMAIN m /\ m[d] # None THEN m[d]
    ELSE IF datasources[d].active_snapshot_id # None
    THEN datasources[d].active_snapshot_id
    ELSE legacy

\* a side without a parent has the legacy parameter only
SideByPrecedence(m, p, side, legacy) ==
    IF side <= Len(Parents(p)) THEN Precedence(m, Parents(p)[side], legacy) ELSE legacy

\* C5 (join input resolution precedence): each side of a join is
\* resolved, independently of the other, to the snapshot the map gives for its
\* parent if present, else the active snapshot of its parent if set, else the
\* legacy parameter of the join step.
C5_PrecedencePerSide ==
    \A p \in JoinPps :
        \A req \in Requests(p) :
            resolve_join(ParentRows(datasources, Parents(p)), req, JoinOf(p)) =
                [left |-> SideByPrecedence(req.snapshots, p, 1, JoinOf(p).left_snapshot_id),
                 right |-> SideByPrecedence(req.snapshots, p, 2, JoinOf(p).right_snapshot_id)]

\* one side of the join of p resolves through none of the three strategies
Unresolved(p, req) ==
    \/ SideByPrecedence(req.snapshots, p, 1, JoinOf(p).left_snapshot_id) = None
    \/ SideByPrecedence(req.snapshots, p, 2, JoinOf(p).right_snapshot_id) = None

StoredColumns(d) ==
    IF datasources[d].schema_json = <<>> THEN <<>>
    ELSE name_dtype(datasources[d].schema_json[1])

UploadedColumns(content) == name_dtype(ingest_schema(read_csv(content)))

\* C7 (schema mismatch rejection): an upload to an existing DataSource whose
\* (column name, type) list differs from the stored schema fails with HTTP 400,
\* writes no file and creates no Snapshot record, and leaves the schema and the
\* active pointer of every DataSource as they were.
C7_MismatchWritesNothing ==
    \A d \in 1..Len(datasources) :
        \A content \in UploadBytes, filename \in FileNames :
            StoredColumns(d) # UploadedColumns(content) =>
                LET r == upload_snapshot(d, content, filename, Time, "none")
                IN /\ r.status = 400
                   /\ r.files = files
                   /\ r.snapshots = snapshots
                   /\ r.datasources = datasources

\* a DataSource that holds a snapshot is offered an upload with other columns,
\* and the upload is answered 400
C7_MismatchOffered ==
    \E d \in 1..Len(datasources) :
        \E content \in UploadBytes, filename \in FileNames :
            /\ datasources[d].active_snapshot_id # None
            /\ StoredColumns(d) # UploadedColumns(content)
            /\ upload_snapshot(d, content, filename, Time, "none").status = 400

\* C8 (atomicity of execute): every execute call, whatever fails in it, ends
\* with all of its state committed (the answer is 200) or with none of it: the
\* DataSources with their schemas, the Snapshot records and the
\* ExecutedPreprocess records are as they were before the call.
C8_AllOrNothing ==
    \A p \in 1..Len(preprocesses) :
        \A req \in Requests(p), fault \in Faults :
            LET r == execute_preprocess(p, req, Time, fault)
            IN \/ r.status = 200
               \/ /\ r.datasources = datasources
                  /\ r.snapshots = snapshots
                  /\ r.executed = executed

\* whether snapshot id is, before the call, the active snapshot of its DataSource
IsActive(id) == datasources[snapshots[id].datasource_id].active_snapshot_id = id

\* the calls of execute_preprocess that can be made in this state: any request
\* through the API, in a session of its own, and the call the automation job
\* is about to make for its top activation, in the session of the job
ExecuteCallsNow ==
    UNION { { [pp |-> p, req |-> req, view |-> datasources] : req \in Requests(p) } :
            p \in 1..Len(preprocesses) }
    \cup (IF auto.pc = "materialize"
          THEN { [pp |-> auto.stack[Len(auto.stack)].pp,
                  req |-> materialize_request(auto.stack[Len(auto.stack)]),
                  view |-> SessionView(auto.cache)] }
          ELSE {})

\* C9: a successful execute call adds exactly one ExecutedPreprocess record and
\* exactly one output Snapshot, owned by the child DataSource; for each consumed
\* input that is the active snapshot of its DataSource it adds one copy, in the
\* same DataSource and with the same bytes, and for no other input; the record
\* links the inputs after copying, in order, and the output.
C9_SuccessfulExecuteRecords ==
    \A c \in ExecuteCallsNow :
        LET p == c.pp
            req == c.req
            r == persist_execution(p, execute_steps_in(c.view, p, req, Time), Time, "none")
            orig == r.trace.orig
            inputs == r.trace.inputs
            out == Len(r.snapshots)
            copied == { k \in 1..Len(orig) : IsActive(orig[k]) }
        IN r.status = 200 =>
           /\ r.executed = Append(executed, r.executed[Len(r.executed)])
           /\ r.executed[Len(r.executed)].preprocess_id = p
           /\ r.executed[Len(r.executed)].snapshots = inputs \o <<out>>
           /\ Len(r.snapshots) = Len(snapshots) + Cardinality(copied) + 1
           /\ SubSeq(r.snapshots, 1, Len(snapshots)) = snapshots
           /\ r.snapshots[out].datasource_id = preprocesses[p].datasource_child_id
           /\ Len(inputs) = Len(orig)
           /\ p \notin JoinPps => orig = <<req.snapshot_id>>
           /\ \A k \in 1..Len(orig) :
                 IF k \in copied
                 THEN /\ inputs[k] \in (Len(snapshots) + 1)..(out - 1)
                      /\ r.snapshots[inputs[k]].datasource_id
                            = snapshots[orig[k]].datasource_id
                      /\ r.files[r.snapshots[inputs[k]].path] = Bytes(orig[k])
                      /\ \A j \in copied : j # k => inputs[j] # inputs[k]
                 ELSE inputs[k] = orig[k]

\* C10 (append-only history): no step removes a Snapshot or an
\* ExecutedPreprocess record or changes the fields or the links of one: both
\* tables only grow at the end.
C10_HistoryOnlyGrows ==
    [][/\ Len(snapshots') >= Len(snapshots)
       /\ SubSeq(snapshots', 1, Len(snapshots)) = snapshots
       /\ Len(executed') >= Len(executed)
       /\ SubSeq(executed', 1, Len(executed)) = executed]_vars

\* a Training has been deleted while Snapshots and an execution were on record
C10_TrainingDeleted ==
    /\ \E tr \in 1..Len(trainings) : trainings[tr].deleted
    /\ snapshots # <<>>
    /\ executed # <<>>

\* C11 (file references are never reused): no two Snapshot records reference the
\* same file path, whichever of ingest, upload, input copy or execution output
\* generated the path.
C11_NoPathShared ==
    \A i, j \in 1..Len(snapshots) :
        i # j => snapshots[i].path # snapshots[j].path

\* the Preprocesses that have DataSource d as their child
Producers(d) == { p \in 1..Len(preprocesses) : preprocesses[p].datasource_child_id = d }

\* C17 (root or derived): every DataSource is the child of no Preprocess or of
\* exactly one, and a successful create_preprocess gives the new Preprocess a
\* child DataSource that did not exist before the call and is none of its parents.
C17_OneProducerFreshChild ==
    /\ \A d \in 1..Len(datasources) : Cardinality(Producers(d)) <= 1
    /\ \A parent_ids \in ParentLists, steps \in Configs :
          \A parents \in QueryParents(parent_ids) :
              LET r == create_preprocess(parent_ids, parents, steps)
                  pp == r.preprocesses[Len(r.preprocesses)]
              IN r.status = 200 =>
                    /\ Len(r.preprocesses) = Len(preprocesses) + 1
                    /\ Len(r.datasources) = Len(datasources) + 1
                    /\ pp.datasource_child_id = Len(r.datasources)
                    /\ pp.datasource_child_id \notin Range(pp.datasource_parents)

\* two Preprocesses are on record, the second with the first one's child as parent
C17_TwoPreprocessesChained ==
    /\ Len(preprocesses) = 2
    /\ preprocesses[1].datasource_child_id \in Range(preprocesses[2].datasource_parents)
    /\ Producers(preprocesses[1].datasource_child_id) = {1}
    /\ Producers(1) = {}

\* the number of join steps of a step list
JoinSteps(steps) == Cardinality({ i \in 1..Len(steps) : steps[i].op = "join" })

\* C18 (parents of a Preprocess): every Preprocess has 1 or 2 parents, one with 2
\* parents has exactly one join step, and a create_preprocess with another number
\* of parents or an unknown parent id fails and persists nothing.
C18_ParentCountAndJoin ==
    /\ \A p \in 1..Len(preprocesses) :
          /\ Len(preprocesses[p].datasource_parents) \in {1, 2}
          /\ Len(preprocesses[p].datasource_parents) = 2
                => JoinSteps(preprocesses[p].config) = 1
    /\ \A parent_ids \in ParentLists, steps \in Configs :
          \A parents \in QueryParents(parent_ids) :
              (\/ Len(parent_ids) \notin {1, 2}
               \/ \E i \in 1..Len(parent_ids) : ~IsDs(parent_ids[i]))
              => /\ create_preprocess(parent_ids, parents, steps).status # 200
                 /\ NoEffect(create_preprocess(parent_ids, parents, steps))

\* whether execution e consumed a copy in place of its k-th resolved input
Copied(e, k) == executed[e].snapshots[k] # consumed[e].orig[k]

\* C19 (independent executions): any two recorded executions have their own
\* output Snapshot at its own path, and the input copies made for one are other
\* records at other paths than the input copies made for the other.
C19_EachExecutionOwnsItsSnapshots ==
    \A e1, e2 \in 1..Len(executed) :
        e1 < e2 =>
            /\ Output(e1) # Output(e2)
            /\ snapshots[Output(e1)].path # snapshots[Output(e2)].path
            /\ \A k1 \in 1..Len(consumed[e1].orig), k2 \in 1..Len(consumed[e2].orig) :
                  (Copied(e1, k1) /\ Copied(e2, k2))
                  => /\ executed[e1].snapshots[k1] # executed[e2].snapshots[k2]
                     /\ snapshots[executed[e1].snapshots[k1]].path
                            # snapshots[executed[e2].snapshots[k2]].path

\* the execution that recorded snapshot s as its output, if any
ExecutionOf(s) == { e \in 1..Len(executed) : Output(e) = s }

RECURSIVE PostOrder(_, _)
RECURSIVE PostOrderInputs(_, _, _)
\* the post-order list of the spec: the lists of the inputs of the execution that
\* produced s, in the order the inputs are loaded, then that execution's own
\* detail list
PostOrder(s, loads) ==
    IF ExecutionOf(s) = {} THEN <<>>
    ELSE LET e == CHOOSE x \in ExecutionOf(s) : TRUE
         IN PostOrderInputs(e, 1, loads) \o executed[e].details_json

PostOrderInputs(e, k, loads) ==
    IF k > Len(loads.snapshots[e]) THEN <<>>
    ELSE (IF loads.snapshots[e][k] = Output(e) THEN <<>>
          ELSE PostOrder(loads.snapshots[e][k], loads))
         \o PostOrderInputs(e, k + 1, loads)

\* C15 (reconstructSteps): for every snapshot, list_preprocess_steps returns the
\* reconstructed details of each input of the execution that produced it,
\* followed by that execution's own details.
C15_StepsInPostOrder ==
    \A loads \in Loads :
        \A s \in 1..Len(snapshots) : recurse(s, loads) = PostOrder(s, loads)

\* the DataSources reachable from d along child-to-parent edges, d included
RECURSIVE Ancestors(_)
Ancestors(d) ==
    {d} \cup UNION { UNION { Ancestors(x) : x \in Range(preprocesses[p].datasource_parents) }
                     : p \in Producers(d) }

\* the active snapshots of the roots among them
RootSnapshots(d) ==
    { datasources[r].active_snapshot_id :
        r \in { x \in Ancestors(d) : Producers(x) = {} } } \ {None}

\* C16 (collectRootSnapshots): for every DataSource the walk of monitor_model
\* returns exactly the active snapshot ids of the roots reachable from it along
\* child-to-parent edges, roots without active snapshot left out, no id twice.
C16_RootSnapshotsCollected ==
    \A d \in 1..Len(datasources) :
        LET root_ids == collect_root_snapshots(<<d>>, {}, <<>>)
        IN /\ Range(root_ids) = RootSnapshots(d)
           /\ Cardinality(Range(root_ids)) = Len(root_ids)

\* a derived DataSource reaches one root along two paths: directly, and through
\* another derived DataSource
C16_RootReachedTwice ==
    \E d \in 1..Len(datasources) : \E p \in Producers(d) :
        \E r, x \in Range(preprocesses[p].datasource_parents) :
            /\ Producers(r) = {}
            /\ datasources[r].active_snapshot_id # None
            /\ \E q \in Producers(x) : r \in Range(preprocesses[q].datasource_parents)
            /\ collect_root_snapshots(<<d>>, {}, <<>>) = <<datasources[r].active_snapshot_id>>

\* the Preprocesses upstream of DataSource d: the producers of d and of every
\* DataSource reachable from it
UpstreamPreprocesses(d) == UNION { Producers(x) : x \in Ancestors(d) }

\* the recursion of the current call has returned a snapshot id
Materialized == auto.pc \in {"materialized", "train", "done"}

\* C12 (memoization): within one top-level materialize call no DataSource is
\* computed twice and no Preprocess is executed twice, and when the call has
\* returned, every Preprocess upstream of the target was executed (exactly once).
C12_EachUpstreamPreprocessOnce ==
    /\ \A i, j \in 1..Len(auto.computed) : i # j => auto.computed[i] # auto.computed[j]
    /\ \A i, j \in 1..Len(auto.ran) : i # j => auto.ran[i].pp # auto.ran[j].pp
    /\ Materialized =>
          { auto.ran[i].pp : i \in 1..Len(auto.ran) } = UpstreamPreprocesses(auto.target)

\* C13 (base case): a materialize call for a DataSource without producing
\* Preprocess changes no record and no file and executes nothing; it returns the
\* DataSource's active snapshot id, or raises (400) and returns no id when the
\* DataSource has no active snapshot.
C13_RootReturnsActiveSnapshot ==
    [][(/\ auto'.runs = auto.runs + 1
        /\ auto'.target # None
        /\ preprocess_producing_child(auto'.target) = None)
       => /\ UNCHANGED <<datasources, snapshots, files, preprocesses, executed,
                         trainings, training_executions>>
          /\ auto'.ran = <<>>
          /\ IF IsDs(auto'.target) /\ datasources[auto'.target].active_snapshot_id # None
             THEN /\ auto'.pc = "materialized"
                  /\ auto'.ret = datasources[auto'.target].active_snapshot_id
             ELSE /\ auto'.pc = "raised"
                  /\ auto'.status = 400
                  /\ auto'.ret = None]_vars

\* a call for a root DataSource has returned its active snapshot, a Preprocess
\* being on record that the call did not execute
C13_RootMaterialized ==
    /\ auto.pc = "materialized"
    /\ IsDs(auto.target)
    /\ Producers(auto.target) = {}
    /\ auto.ret = datasources[auto.target].active_snapshot_id
    /\ auto.ran = <<>>
    /\ preprocesses # <<>>
    /\ executed = <<>>

\* C14 (recursive case): when a materialize call for a derived DataSource has
\* returned, every Preprocess it executed had all its parents materialized and
\* consumed (copies of) exactly their materialized snapshots, passed as an
\* explicit map when there are two; and the id returned is the output of the
\* execution of the target's Preprocess.
C14_ExecutesOnMaterializedParents ==
    (Materialized /\ Producers(auto.target) # {}) =>
        /\ \A i \in 1..Len(auto.ran) :
              LET parents == preprocesses[auto.ran[i].pp].datasource_parents
              IN /\ Range(parents) \subseteq DOMAIN auto.memo
                 /\ Range(consumed[auto.ran[i].exe].orig)
                        = { auto.memo[d] : d \in Range(parents) }
                 /\ Len(parents) = 2 =>
                        auto.ran[i].req.snapshots
                            = [d \in Range(parents) |-> auto.memo[d]]
        /\ auto.ran # <<>>
        /\ auto.ran[Len(auto.ran)].pp \in Producers(auto.target)
        /\ auto.ret = Output(auto.ran[Len(auto.ran)].exe)

\* C20 (failed automation runs): a run of run_automation_for_training for a
\* Training on record never ends by raising, and a run that has ended left a
\* TrainingExecution with a terminal status.
C20_FailureIsRecordedNotRaised ==
    (auto.training_id # None /\ auto.target # None) =>
        /\ auto.pc # "raised"
        /\ auto.pc = "done" =>
              training_executions[auto.exec_rec].status \in {"success", "failed"}

\* the TrainingExecution e is on record / is on record with a final status
OnRecord(e) == e \in 1..Len(training_executions) /\ ~training_executions[e].deleted

Running(e) == OnRecord(e) /\ training_executions[e].status = "running"

Terminal(e) == OnRecord(e) /\ training_executions[e].status \in {"success", "failed"}

\* C21: every TrainingExecution created with status 'running' reaches status
\* 'success' or 'failed' once its run_training has run, and a TrainingExecution
\* that has reached one of the two keeps that status for as long as it is on
\* record.
C21_RunningReachesTerminal ==
    /\ \A e \in 1..MaxTrainExec : [](Running(e) => <>Terminal(e))
    /\ [][\A e \in 1..Len(training_executions) :
            (Terminal(e) /\ ~training_executions'[e].deleted)
                => training_executions'[e].status = training_executions[e].status]_vars

\* the call of run_custom_step / run_custom_join has returned or raised
SandboxDone == sandbox.pc \in {"returned", "raised"}

\* the user function came to its end no later than the time limit
FinishedInTime == sandbox.finished # -1 /\ sandbox.finished <= TIME_LIMIT_SECONDS

\* C22 (sandbox time limit): a call of run_custom_step / run_custom_join waits no
\* longer than the time limit; when the user function has not finished within
\* the limit the worker is terminated and the call fails with 400 'Time limit
\* exceeded'; when it has finished within the limit and returned a table, the
\* call returns that table, whatever its size.
C22_TimeLimitAndResult ==
    /\ sandbox.elapsed <= TIME_LIMIT_SECONDS
    /\ SandboxDone =>
          /\ ~FinishedInTime =>
                /\ sandbox.pc = "raised"
                /\ sandbox.status = 400
                /\ sandbox.detail = "Time limit exceeded (5s)."
                /\ sandbox.worker = "terminated"
          /\ (FinishedInTime /\ sandbox.kind = "table") =>
                /\ sandbox.pc = "returned"
                /\ sandbox.ret = sandbox.size

\* the successful executions of Preprocess p, in creation order, and the input
\* snapshots recorded for execution e
ExecutionsOf(p) == SelectSeq([e \in 1..Len(executed) |-> e],
                             LAMBDA e : executed[e].preprocess_id = p)

InputsOf(e) == SubSeq(executed[e].snapshots, 1, Len(executed[e].snapshots) - 1)

\* C23 (execution history is complete): list_executions of a Preprocess returns
\* one record for each of its successful executions, in creation order, and
\* each record reports the output snapshot of its execution and all of its
\* input snapshots (two for a join), in whatever order the linked snapshots
\* were loaded.
C23_HistoryIsComplete ==
    \A p \in 1..Len(preprocesses), loads \in Loads :
        LET r == list_executions(p, loads)
        IN /\ r.status = 200
           /\ Len(r.ret) = Len(ExecutionsOf(p))
           /\ \A k \in 1..Len(r.ret) :
                 LET e == ExecutionsOf(p)[k]
                 IN /\ r.ret[k].id = e
                    /\ is_join(preprocesses[p].config) => Len(InputsOf(e)) = 2
                    /\ r.ret[k].output_snapshot = Output(e)
                    /\ Range(r.ret[k].input_snapshots) = Range(InputsOf(e))

\* C28: every input snapshot linked to an ExecutedPreprocess belongs to one of
\* the parent DataSources of its Preprocess, and its output snapshot belongs to
\* the child DataSource of its Preprocess.
C28_InputsBelongToParents ==
    \A e \in 1..Len(executed) :
        LET pp == preprocesses[executed[e].preprocess_id]
        IN /\ \A k \in 1..Len(InputsOf(e)) :
                 snapshots[InputsOf(e)[k]].datasource_id \in Range(pp.datasource_parents)
           /\ snapshots[Output(e)].datasource_id = pp.datasource_child_id

\* the snapshots a store snaps holds for DataSource d
SnapshotsOf(snaps, d) == { i \in 1..Len(snaps) : snaps[i].datasource_id = d }

\* C24: a successful ingest commits a new root DataSource with its schema set,
\* exactly one Snapshot of it, whose file holds the upload, and that Snapshot as
\* its active snapshot, and changes no other record; an ingest that fails
\* (unreadable file, failure of the disk, failure of the commit) commits neither
\* a DataSource nor a Snapshot.
C24_IngestCreatesBothOrNeither ==
    \A content \in IngestContents, filename \in FileNames, fault \in Faults :
        LET r == create_datasource_with_snapshot(content, filename, Time, fault)
            d == Len(datasources) + 1
        IN IF r.status = 200
           THEN /\ r.ret = d
                /\ Len(r.datasources) = d
                /\ SubSeq(r.datasources, 1, d - 1) = datasources
                /\ r.datasources[d].schema_json # <<>>
                /\ \A p \in 1..Len(r.preprocesses) : r.preprocesses[p].datasource_child_id # d
                /\ Len(r.snapshots) = Len(snapshots) + 1
                /\ SubSeq(r.snapshots, 1, Len(snapshots)) = snapshots
                /\ SnapshotsOf(r.snapshots, d) = {r.datasources[d].active_snapshot_id}
                /\ r.files[r.snapshots[Len(r.snapshots)].path] = content
           ELSE /\ r.datasources = datasources
                /\ r.snapshots = snapshots

\* an ingest has succeeded, and a later one has failed after it wrote its file
C24_IngestSucceededAndFailed ==
    /\ \E d \in 1..Len(datasources) :
          /\ datasources[d].active_snapshot_id # None
          /\ SnapshotsOf(snapshots, d) = {datasources[d].active_snapshot_id}
    /\ \E path \in DOMAIN files : path[1] = Len(datasources) + 1

\* C25 (fail-safe write ordering): in every reachable state, those after a
\* failure between two steps of an operation included, every committed Snapshot
\* refers to a file that is written, and a child DataSource carries the schema of
\* an execution only when an output file of an execution is on disk for it.
C25_FileBeforeMetadata ==
    /\ \A i \in 1..Len(snapshots) : snapshots[i].path \in DOMAIN files
    /\ \A p \in 1..Len(preprocesses) :
          datasources[preprocesses[p].datasource_child_id].schema_json # <<>>
            => \E path \in DOMAIN files :
                   /\ path[1] = preprocesses[p].datasource_child_id
                   /\ path[3] = "exec.csv"

\* the DataSources reached from d in 1 to n steps along child-to-parent edges
RECURSIVE AncestorsWithin(_, _)
AncestorsWithin(d, n) ==
    IF n = 0 THEN {}
    ELSE LET direct == UNION { Range(preprocesses[p].datasource_parents) :
                                 p \in { q \in 1..Len(preprocesses) :
                                            preprocesses[q].datasource_child_id = d } }
         IN direct \cup UNION { AncestorsWithin(x, n - 1) : x \in direct }

\* C26: the Preprocess graph is acyclic in every reachable state: no DataSource
\* is its own ancestor, every parent of a Preprocess is a DataSource that was
\* created before its child, and so the descent of materialize and the backward
\* walks of monitor_model and list_preprocess_steps come to an end for every
\* target.
C26_GraphIsAcyclic ==
    /\ \A d \in 1..Len(datasources) : d \notin AncestorsWithin(d, Len(datasources))
    /\ \A p \in 1..Len(preprocesses) :
          \A x \in Range(preprocesses[p].datasource_parents) :
              IsDs(x) /\ x < preprocesses[p].datasource_child_id
    /\ \A d \in 1..Len(datasources) :
          /\ materialize_start(None, d).pc \in {"materialize", "materialized", "raised"}
          /\ Range(collect_root_snapshots(<<d>>, {}, <<>>)) \subseteq 1..Len(snapshots)
    /\ \A loads \in Loads :
          \A s \in 1..Len(snapshots) : Len(recurse(s, loads)) <= 2 * Len(executed)

\* a DataSource has a grandparent: it was derived, by a Preprocess with two
\* parents, from a DataSource that was itself derived
C26_DerivedFromDerived ==
    \E p, q \in 1..Len(preprocesses) :
        /\ Len(preprocesses[q].datasource_parents) = 2
        /\ preprocesses[p].datasource_child_id \in Range(preprocesses[q].datasource_parents)
        /\ AncestorsWithin(preprocesses[q].datasource_child_id, Len(datasources))
               = Range(preprocesses[q].datasource_parents)
                    \cup Range(preprocesses[p].datasource_parents)

\* the executions that produced a snapshot execution e resolved as an input (the
\* snapshot itself, whether e then consumed it or a copy of it), and the
\* executions that transitively produced an input of e
DirectLineage(e) == UNION { ExecutionOf(consumed[e].orig[k]) : k \in 1..Len(consumed[e].orig) }

RECURSIVE Lineage(_)
Lineage(e) == DirectLineage(e) \cup UNION { Lineage(x) : x \in DirectLineage(e) }

RECURSIVE DetailsCount(_)
DetailsCount(E) ==
    IF E = {} THEN 0
    ELSE LET x == CHOOSE y \in E : TRUE
         IN Len(executed[x].details_json) + DetailsCount(E \ {x})

\* C27 (lineage completeness): when every recorded input belongs to a parent of
\* its Preprocess, list_preprocess_steps lists, for the output snapshot of every
\* execution, the details of that execution and of every execution that
\* transitively produced one of its inputs, whether the inputs were consumed as
\* they were or, being active, as copies.
C27_LineageIsComplete ==
    C28_InputsBelongToParents =>
        \A e \in 1..Len(executed), loads \in Loads :
            Len(recurse(Output(e), loads)) >= DetailsCount({e} \cup Lineage(e))

\* the active pointer of DataSource d in the table dss is unset, or is a Snapshot
\* of the table snaps that belongs to d
PointerIsValid(dss, snaps, d) ==
    \/ dss[d].active_snapshot_id = None
    \/ /\ dss[d].active_snapshot_id \in 1..Len(snaps)
       /\ snaps[dss[d].active_snapshot_id].datasource_id = d

\* set_active_snapshot answers 400 to a snapshot id that is unknown or belongs
\* to another DataSource, and leaves every record as it was
InvalidSnapshotRejected ==
    \A d \in 1..Len(datasources), s \in 0..(Len(snapshots) + 1) :
        (~IsSnap(s) \/ snapshots[s].datasource_id # d) =>
            LET r == set_active_snapshot(d, s)
            IN /\ r.status = 400
               /\ r.datasources = datasources
               /\ r.snapshots = snapshots

\* a step that moves the active pointer of an existing DataSource is a
\* set_active_snapshot: it writes no file and creates no Snapshot and no
\* ExecutedPreprocess (as ingest, upload_snapshot and execute all do when they
\* change anything)
PointerMovedBySetActiveOnly ==
    \A d \in 1..Len(datasources) :
        datasources'[d].active_snapshot_id # datasources[d].active_snapshot_id
            => /\ snapshots' = snapshots
               /\ files' = files
               /\ executed' = executed
               /\ Len(datasources') = Len(datasources)

\* C29: in every reachable state the active pointer of every DataSource is
\* unset or is an existing Snapshot of that DataSource; set_active_snapshot
\* answers 400 to an unknown snapshot id or to a snapshot of another DataSource
\* and leaves the pointer as it was; upload_snapshot and execute never change an
\* active pointer.
C29_ActivePointerIsOwned ==
    /\ [](\A d \in 1..Len(datasources) : PointerIsValid(datasources, snapshots, d))
    /\ []InvalidSnapshotRejected
    /\ [][PointerMovedBySetActiveOnly]_vars

\* the active pointer of a DataSource has been moved to a later snapshot of it
\* while another DataSource holds snapshots too
C29_PointerMoved ==
    \E d \in 1..Len(datasources) :
        /\ datasources[d].active_snapshot_id # None
        /\ \E i \in SnapshotsOf(snapshots, d) : i < datasources[d].active_snapshot_id
        /\ \E s \in 1..Len(snapshots) : snapshots[s].datasource_id # d

\* the tables the files fs hold are the tables the files now hold
SameTables(fs) ==
    /\ DOMAIN fs = DOMAIN files
    /\ \A path \in DOMAIN files : read_csv(fs[path]) = read_csv(files[path])

\* C30 (append_rows is all-or-nothing): a call of append_rows that fails, for
\* whatever reason, leaves the table of every file as it was; a call that
\* succeeds appends the rows of the request, in order, to the file of the active
\* snapshot and to no other.
C30_AppendIsAllOrNothing ==
    \A d \in 1..(Len(datasources) + 1), rows \in AppendRequests :
        LET r == append_rows(d, rows)
        IN IF r.status # 200
           THEN SameTables(r.files)
           ELSE LET path == snapshots[datasources[d].active_snapshot_id].path
                IN /\ DOMAIN r.files = DOMAIN files
                   /\ \A other \in DOMAIN files \ {path} : r.files[other] = files[other]
                   /\ read_csv(r.files[path]).cols = read_csv(files[path]).cols
                   /\ read_csv(r.files[path]).rows
                         = read_csv(files[path]).rows \o [k \in 1..Len(rows) |-> rows[k].val]

====
